---------------------------- MODULE Spec2Model ----------------------------
(***************************************************************************)
(* Model of market-faker: the Pydantic entity classes of                   *)
(* models/fake_financing.py (type registry, table provisioning, synthetic  *)
(* record generators, batch writer) and its __main__ entry point, run      *)
(* against a ClickHouse store.                                             *)
(*                                                                         *)
(* The store is the external collaborator: it is modelled by the effect    *)
(* of the statements the code sends (DROP TABLE IF EXISTS, CREATE TABLE    *)
(* IF NOT EXISTS, insert_arrow), and every call of it may raise.           *)
(***************************************************************************)
EXTENDS Integers, Sequences, FiniteSets, TLC

VARIABLES
    store,            \* qualified table name -> table (existence, schema, rows)
    last,             \* the most recent classmethod call: arguments, commands issued, outcome
    pc,               \* entry point: index of the next statement of __main__
    status,           \* entry point: "idle" | "running" | "done" | "aborted"
    error,            \* entry point: the exception that reached the top level
    trace,            \* entry point: store calls and generator calls, in order
    seed,             \* entry point: the state of the random source at start
    books_df,         \* the local books_df (a batch: a sequence of rows)
    counterparty_df,  \* the local counterparty_df
    instrument_df,    \* the local instrument_df
    trades_df,        \* the local trades_df
    risk_df,          \* result of Risk.generate_random_risks_from_trades_df
    risk_mv,          \* the local risk_mv
    pnl_eod           \* the local pnl_eod

vars == <<store, last, pc, status, error, trace, seed, books_df, counterparty_df,
          instrument_df, trades_df, risk_df, risk_mv, pnl_eod>>

batches == <<books_df, counterparty_df, instrument_df, trades_df, risk_df, risk_mv, pnl_eod>>

entry == <<pc, status, error, trace, seed>>

-----------------------------------------------------------------------------
(* Bounds of the model. *)

\* Rows one table may hold in the provisioning specification.
MaxTableRows == 2

\* Largest num_records passed to Trade.generate_random_trades_df in the generator
\* specification.
MaxRecords == 2

\* Largest num_risks_per_trade passed to the risk generators.
MaxRisksPerTrade == 2

\* Largest initial state of the random source in the entry-point specification.
MaxSeed == 1

\* Largest number of runs of create_views.py after a run of fake_financing.py.
MaxViewRuns == 2

-----------------------------------------------------------------------------
(* Type registry: fake_financing.py lines 12-65.  An annotation is the      *)
(* text of the field's type; Optional[X] is typing.Union[X, None].         *)

ScalarTypes == {"str", "int", "float", "bool", "date", "datetime", "Decimal"}

OptionalOf(t) == "Optional[" \o t \o "]"

OptionalTypes == {OptionalOf(t) : t \in ScalarTypes}

\* typing.get_origin: Union for Optional[X], None for a plain class.  It never
\* returns typing.Optional.
get_origin(python_type) ==
    IF python_type \in OptionalTypes THEN "typing.Union" ELSE "None"

\* typing.get_args(python_type)[0]
get_args0(python_type) ==
    CHOOSE t \in ScalarTypes : OptionalOf(t) = python_type

PYTHON_TO_CLICKHOUSE_TYPE_MAP ==
    [x \in {"str", "int", "float", "bool", "date", "datetime", "Decimal",
            "Optional[float]", "Optional[int]", "Optional[str]", "Optional[date]",
            "Optional[datetime]", "Optional[Decimal]"} |->
        CASE x = "str" -> "String"
          [] x = "int" -> "Int64"
          [] x = "float" -> "Float64"
          [] x = "bool" -> "UInt8"
          [] x = "date" -> "Date"
          [] x = "datetime" -> "DateTime"
          [] x = "Decimal" -> "Decimal(38, 18)"
          [] x = "Optional[float]" -> "Nullable(Float64)"
          [] x = "Optional[int]" -> "Nullable(Int64)"
          [] x = "Optional[str]" -> "Nullable(String)"
          [] x = "Optional[date]" -> "Nullable(Date)"
          [] x = "Optional[datetime]" -> "Nullable(DateTime)"
          [] x = "Optional[Decimal]" -> "Nullable(Decimal(38, 18))"]

PYTHON_TO_POLARS_TYPE_MAP ==
    [x \in ScalarTypes |->
        CASE x = "str" -> "Utf8"
          [] x = "int" -> "Int64"
          [] x = "float" -> "Float64"
          [] x = "bool" -> "Boolean"
          [] x = "date" -> "Date"
          [] x = "datetime" -> "Datetime"
          [] x = "Decimal" -> "Decimal(38, 18)"]

\* Variant of DictGet: d[key], which raises KeyError for a key d does not hold.
DictGet_strict(d, key, default) == IF key \in DOMAIN d THEN d[key] ELSE "KeyError"

\* dict.get(key, default)
DictGet(d, key, default) == IF key \in DOMAIN d THEN d[key] ELSE default

\* Variant of get_clickhouse_type: an Optional type resolves as its base type.
get_clickhouse_type_base(python_type) ==
    DictGet(PYTHON_TO_CLICKHOUSE_TYPE_MAP,
            IF python_type \in OptionalTypes THEN get_args0(python_type) ELSE python_type,
            "String")

get_clickhouse_type(python_type) ==
    LET origin == get_origin(python_type) IN
    IF origin = "typing.Optional"
    THEN LET base_type == get_args0(python_type) IN
         CASE base_type = "Decimal" -> "Nullable(Decimal(38, 18))"
           [] base_type = "date" -> "Nullable(Date)"
           [] base_type = "datetime" -> "Nullable(DateTime)"
           [] base_type = "str" -> "Nullable(String)"
           [] base_type = "int" -> "Nullable(Int64)"
           [] base_type = "float" -> "Nullable(Float64)"
           [] OTHER -> DictGet(PYTHON_TO_CLICKHOUSE_TYPE_MAP, python_type, "String")
    ELSE DictGet(PYTHON_TO_CLICKHOUSE_TYPE_MAP, python_type, "String")

get_polars_type(python_type) ==
    LET origin == get_origin(python_type) IN
    IF origin = "typing.Optional"
    THEN LET base_type == get_args0(python_type) IN
         IF base_type = "Decimal"
         THEN "Decimal(38, 18)"
         ELSE DictGet(PYTHON_TO_POLARS_TYPE_MAP, base_type, "Utf8")
    ELSE DictGet(PYTHON_TO_POLARS_TYPE_MAP, python_type, "Utf8")

-----------------------------------------------------------------------------
(* Entity classes of fake_financing.py: the declared fields, in            *)
(* declaration order, as <<field_name, annotation>>.                       *)

Entities == {"Trade", "PnLEod", "RiskMV", "Risk", "Counterparty", "Instrument", "HmsBook"}

TradeFields ==
    <<
        <<"asOfDate", "date">>, <<"jobId", "Optional[str]">>, <<"snapId", "Optional[str]">>,
        <<"id", "int">>, <<"version", "int">>, <<"tradeId", "Optional[str]">>,
        <<"status", "Optional[str]">>, <<"pts", "Optional[str]">>,
        <<"hmsBook", "Optional[str]">>, <<"portfolio", "Optional[str]">>,
        <<"productType", "Optional[str]">>, <<"productSubType", "Optional[str]">>,
        <<"tradeDt", "Optional[date]">>, <<"startDt", "Optional[date]">>,
        <<"maturityDt", "Optional[date]">>, <<"maturityIsOpen", "Optional[str]">>,
        <<"executionDt", "Optional[datetime]">>, <<"counterParty", "Optional[str]">>,
        <<"treatsCode", "Optional[str]">>, <<"traderName", "Optional[str]">>,
        <<"projectName", "Optional[str]">>, <<"qmlError", "Optional[str]">>,
        <<"model", "Optional[str]">>, <<"side", "Optional[str]">>,
        <<"haircut", "Optional[float]">>, <<"collatCurrency", "Optional[str]">>,
        <<"settlementCurrency", "Optional[str]">>, <<"collatId", "Optional[str]">>,
        <<"collatDesc", "Optional[str]">>, <<"collatNotional", "Optional[Decimal]">>,
        <<"collatType", "Optional[str]">>, <<"fundingLegType", "Optional[str]">>,
        <<"fundingLegNotional", "Optional[Decimal]">>,
        <<"fundingLegCurrency", "Optional[str]">>,
        <<"fundingLegMargin", "Optional[Decimal]">>,
        <<"fundingLegFixingLabel", "Optional[str]">>, <<"iaAmount", "Optional[Decimal]">>,
        <<"iaCcy", "Optional[str]">>, <<"pxInception", "Optional[float]">>,
        <<"pxInceptionClean", "Optional[float]">>,
        <<"pxFactorInception", "Optional[float]">>, <<"sideFactor", "Optional[float]">>,
        <<"fxPair", "Optional[str]">>, <<"fxPairFunding", "Optional[str]">>
    >>

PnLEodFields ==
    <<
        <<"id", "str">>, <<"asOfDate", "datetime">>, <<"updatedAt", "datetime">>,
        <<"bu", "Optional[str]">>, <<"sbu", "Optional[str]">>,
        <<"portfolio", "Optional[str]">>, <<"book", "str">>, <<"YTD", "Optional[float]">>,
        <<"MTD", "Optional[float]">>, <<"DTD", "Optional[float]">>,
        <<"AOP", "Optional[float]">>, <<"PPNL", "Optional[float]">>,
        <<"calculatedAt", "datetime">>
    >>

RiskMVFields ==
    <<
        <<"id", "str">>, <<"asOfDate", "datetime">>, <<"updatedAt", "datetime">>,
        <<"bu", "Optional[str]">>, <<"sbu", "Optional[str]">>,
        <<"portfolio", "Optional[str]">>, <<"book", "str">>, <<"tradeId", "Optional[str]">>,
        <<"ccy", "Optional[str]">>, <<"tradeCcy", "Optional[str]">>,
        <<"instrument", "Optional[str]">>, <<"tradeStatus", "Optional[int]">>,
        <<"version", "Optional[float]">>, <<"cashOut", "Optional[float]">>,
        <<"projectedCashOut", "Optional[float]">>, <<"realisedCashOut", "Optional[float]">>,
        <<"notional", "Optional[float]">>, <<"vcProduct", "Optional[str]">>,
        <<"vcProductGroup", "Optional[str]">>, <<"counterparty", "Optional[str]">>,
        <<"obligor", "Optional[str]">>, <<"tradeDate", "Optional[date]">>,
        <<"startDate", "Optional[date]">>, <<"maturityDate", "Optional[date]">>,
        <<"underlyingCcy", "Optional[float]">>, <<"underlyingAmount", "Optional[str]">>,
        <<"calculatedAt", "datetime">>
    >>

RiskFields ==
    <<
        <<"jobId", "Optional[str]">>, <<"asOfDate", "date">>, <<"snapId", "Optional[str]">>,
        <<"id", "int">>, <<"tradeId", "Optional[str]">>,
        <<"counterParty", "Optional[str]">>, <<"collatId", "Optional[str]">>,
        <<"collatDesc", "Optional[str]">>, <<"collatConcentration", "Optional[float]">>,
        <<"collatName", "Optional[str]">>, <<"collatTicker", "Optional[str]">>,
        <<"collatIssuer", "Optional[str]">>, <<"outstandingAmt", "Optional[Decimal]">>,
        <<"dtm", "Optional[str]">>, <<"age", "Optional[str]">>,
        <<"tenor", "Optional[str]">>, <<"fxSpot", "Optional[float]">>,
        <<"fxSpotFunding", "Optional[float]">>, <<"fxSpotEOD", "Optional[float]">>,
        <<"fundingAmount", "Optional[Decimal]">>,
        <<"collateralAmount", "Optional[Decimal]">>, <<"cashOut", "Optional[Decimal]">>,
        <<"accrualDaily", "Optional[Decimal]">>,
        <<"accrualProjected", "Optional[Decimal]">>,
        <<"accrualRealised", "Optional[Decimal]">>, <<"pxEOD", "Optional[Decimal]">>,
        <<"pxLast", "Optional[float]">>, <<"realizedMarginCall", "Optional[float]">>,
        <<"expectedMarginCall", "Optional[float]">>,
        <<"financingExposure", "Optional[float]">>, <<"calculatedAt", "datetime">>,
        <<"updatedAt", "datetime">>
    >>

CounterpartyFields ==
    <<
        <<"name", "str">>, <<"shortName", "Optional[str]">>, <<"type", "Optional[str]">>,
        <<"region", "Optional[str]">>, <<"country", "Optional[str]">>,
        <<"sector", "Optional[str]">>, <<"industry", "Optional[str]">>,
        <<"rating", "Optional[str]">>, <<"ratingAgency", "Optional[str]">>,
        <<"lei", "Optional[str]">>, <<"status", "Optional[str]">>,
        <<"updatedAt", "datetime">>
    >>

InstrumentFields ==
    <<
        <<"id", "str">>, <<"type", "Optional[str]">>, <<"name", "Optional[str]">>,
        <<"description", "Optional[str]">>, <<"status", "Optional[str]">>,
        <<"updatedAt", "datetime">>
    >>

HmsBookFields ==
    <<
        <<"name", "str">>, <<"desk", "str">>, <<"updatedAt", "datetime">>
    >>

\* cls.model_fields.items()
model_fields(cls) ==
    CASE cls = "Trade" -> TradeFields
      [] cls = "PnLEod" -> PnLEodFields
      [] cls = "RiskMV" -> RiskMVFields
      [] cls = "Risk" -> RiskFields
      [] cls = "Counterparty" -> CounterpartyFields
      [] cls = "Instrument" -> InstrumentFields
      [] cls = "HmsBook" -> HmsBookFields

\* The default of the table_name parameter of cls.create_clickhouse_table and
\* cls.save_to_clickhouse.
DefaultTableName(cls) ==
    CASE cls = "Trade" -> "trades_f"
      [] cls = "PnLEod" -> "pnl_eod"
      [] cls = "RiskMV" -> "risk_f_mv"
      [] cls = "Risk" -> "risk_f"
      [] cls = "Counterparty" -> "counterparty_f"
      [] cls = "Instrument" -> "instrument_f"
      [] cls = "HmsBook" -> "hmsbook_f"

\* The default of the order_by parameter of cls.create_clickhouse_table.
DefaultOrderBy(cls) ==
    CASE cls \in {"Trade", "PnLEod", "RiskMV", "Risk"} -> <<"asOfDate", "id">>
      [] cls \in {"Counterparty", "HmsBook"} -> <<"name">>
      [] cls = "Instrument" -> <<"id">>

\* Variant of EngineVersionColumn: every table is deduplicated on updatedAt.
EngineVersionColumn_updatedAt(cls) == "updatedAt"

\* The argument of ReplacingMergeTree(...) in cls's CREATE statement.
EngineVersionColumn(cls) ==
    CASE cls = "Trade" -> "version"
      [] cls \in {"PnLEod", "RiskMV", "Risk"} -> "calculatedAt"
      [] cls \in {"Counterparty", "Instrument", "HmsBook"} -> "updatedAt"

DefaultDatabase == "default"

-----------------------------------------------------------------------------
(* The store, as the statements of the code act on it.  A table is known   *)
(* by its qualified name "<database>.<table_name>".                        *)

TableNames == {DefaultTableName(cls) : cls \in Entities}

QualifiedName(database, table_name) == database \o "." \o table_name

QualifiedNames == {QualifiedName(DefaultDatabase, t) : t \in TableNames}

NoTable == [exists |-> FALSE, columns |-> <<>>, engine |-> "", version_column |-> "",
            order_by |-> <<>>, rows |-> <<>>]

EmptyStore == [q \in QualifiedNames |-> NoTable]

\* What a store call may raise, whatever the statement (connection lost, DDL
\* rejected, insert rejected); "ok" when it raises nothing.
StoreErrors == {"OperationalError", "DatabaseError"}

Outcomes == {"ok"} \cup StoreErrors

\* No exception.
None == "None"

\* Variant of DropTableQuery: IF EXISTS is left out of the statement.
DropTableQuery_plain(database, table_name) ==
    [verb |-> "DROP TABLE", target |-> QualifiedName(database, table_name)]

\* f"DROP TABLE IF EXISTS {database}.{table_name}"
DropTableQuery(database, table_name) ==
    [verb |-> "DROP TABLE IF EXISTS", target |-> QualifiedName(database, table_name)]

\* field_definitions: one "<field_name> <clickhouse_type>" per declared field,
\* in the order of cls.model_fields.  (Counterparty back-quotes the name, which
\* names the same column.)
FieldDefinitions(cls) ==
    [k \in 1..Len(model_fields(cls)) |->
        <<model_fields(cls)[k][1], get_clickhouse_type(model_fields(cls)[k][2])>>]

\* Variant of CreateTableQuery: IF NOT EXISTS is left out of the statement.
CreateTableQuery_plain(cls, database, table_name, order_by) ==
    [verb |-> "CREATE TABLE",
     target |-> QualifiedName(database, table_name),
     columns |-> FieldDefinitions(cls),
     engine |-> "ReplacingMergeTree",
     version_column |-> EngineVersionColumn(cls),
     order_by |-> order_by]

\* f"CREATE TABLE IF NOT EXISTS {database}.{table_name} ({fields_sql})
\*   ENGINE = ReplacingMergeTree(<version column>) ORDER BY ({order_by_clause})"
CreateTableQuery(cls, database, table_name, order_by) ==
    [verb |-> "CREATE TABLE IF NOT EXISTS",
     target |-> QualifiedName(database, table_name),
     columns |-> FieldDefinitions(cls),
     engine |-> "ReplacingMergeTree",
     version_column |-> EngineVersionColumn(cls),
     order_by |-> order_by]

\* The store executing one statement: the store after it, and what it raises.
Execute(st, query) ==
    LET t == st[query.target] IN
    CASE query.verb = "DROP TABLE IF EXISTS" ->
            [store |-> [st EXCEPT ![query.target] = NoTable], raised |-> None]
      [] query.verb = "DROP TABLE" ->
            IF t.exists
            THEN [store |-> [st EXCEPT ![query.target] = NoTable], raised |-> None]
            ELSE [store |-> st, raised |-> "UNKNOWN_TABLE"]
      [] query.verb \in {"CREATE TABLE IF NOT EXISTS", "CREATE TABLE"} ->
            IF t.exists
            THEN [store |-> st,
                  raised |-> IF query.verb = "CREATE TABLE"
                             THEN "TABLE_ALREADY_EXISTS" ELSE None]
            ELSE [store |-> [st EXCEPT ![query.target] =
                                [exists |-> TRUE, columns |-> query.columns,
                                 engine |-> query.engine,
                                 version_column |-> query.version_column,
                                 order_by |-> query.order_by, rows |-> <<>>]],
                  raised |-> None]
      [] query.verb = "CREATE MATERIALIZED VIEW" ->
            IF t.exists
            THEN [store |-> st, raised |-> "TABLE_ALREADY_EXISTS"]
            ELSE [store |-> [st EXCEPT ![query.target] =
                                [exists |-> TRUE, columns |-> query.columns,
                                 engine |-> query.engine,
                                 version_column |-> query.version_column,
                                 order_by |-> [k \in 1..Len(query.order_by) |->
                                                  query.order_by[k][2]],
                                 rows |-> <<>>]],
                  raised |-> None]

\* client.command(query), the store answering `outcome`: a call that raises
\* leaves the store as it was.
ClientCommand(st, query, outcome) ==
    IF outcome # "ok"
    THEN [store |-> st, raised |-> outcome]
    ELSE Execute(st, query)

\* client.insert_arrow(table, arrow_table): one append of the whole batch.
ClientInsertArrow(st, target, arrow_table, outcome) ==
    IF outcome # "ok"
    THEN [store |-> st, raised |-> outcome]
    ELSE IF ~st[target].exists
    THEN [store |-> st, raised |-> "UNKNOWN_TABLE"]
    ELSE [store |-> [st EXCEPT ![target].rows = @ \o arrow_table], raised |-> None]

-----------------------------------------------------------------------------
(* cls.create_clickhouse_table(client, table_name, database, drop_existing, *)
(* order_by).  `outcomes` is what the store answers to the first and to the *)
(* second command of the call.  The result is the store after the call,    *)
(* the commands issued, in order, and the exception the call raises.       *)

\* Variants of create_clickhouse_table with one plausible slip each.
\* (a) the DROP is wrapped in try/except and its error is swallowed.
create_clickhouse_table_swallow(cls, st, table_name, database, drop_existing, order_by, outcomes) ==
    LET drop_table_query == DropTableQuery(database, table_name)
        create_table_query == CreateTableQuery(cls, database, table_name, order_by)
        dropped == IF drop_existing
                   THEN ClientCommand(st, drop_table_query, outcomes[1])
                   ELSE [store |-> st, raised |-> None]
        issued1 == IF drop_existing THEN <<drop_table_query>> ELSE <<>>
        created == ClientCommand(dropped.store, create_table_query,
                                 outcomes[Len(issued1) + 1])
    IN  [store |-> created.store,
         issued |-> Append(issued1, create_table_query),
         raised |-> created.raised]

\* (b) drop_existing is ignored: the DROP is never issued.
create_clickhouse_table_no_drop(cls, st, table_name, database, drop_existing, order_by, outcomes) ==
    LET create_table_query == CreateTableQuery(cls, database, table_name, order_by)
        created == ClientCommand(st, create_table_query, outcomes[1])
    IN  [store |-> created.store, issued |-> <<create_table_query>>,
         raised |-> created.raised]

\* (c) the CREATE is issued before the DROP.
create_clickhouse_table_create_first(cls, st, table_name, database, drop_existing, order_by, outcomes) ==
    LET drop_table_query == DropTableQuery(database, table_name)
        create_table_query == CreateTableQuery(cls, database, table_name, order_by)
        created == ClientCommand(st, create_table_query, outcomes[1])
        dropped == ClientCommand(created.store, drop_table_query, outcomes[2])
    IN  IF created.raised # None \/ ~drop_existing
        THEN [store |-> created.store, issued |-> <<create_table_query>>,
              raised |-> created.raised]
        ELSE [store |-> dropped.store,
              issued |-> <<create_table_query, drop_table_query>>,
              raised |-> dropped.raised]

create_clickhouse_table(cls, st, table_name, database, drop_existing, order_by, outcomes) ==
    LET drop_table_query == DropTableQuery(database, table_name)
        create_table_query == CreateTableQuery(cls, database, table_name, order_by)
        dropped == IF drop_existing
                   THEN ClientCommand(st, drop_table_query, outcomes[1])
                   ELSE [store |-> st, raised |-> None]
        issued1 == IF drop_existing THEN <<drop_table_query>> ELSE <<>>
        created == ClientCommand(dropped.store, create_table_query,
                                 outcomes[Len(issued1) + 1])
    IN  IF dropped.raised # None
        THEN [store |-> dropped.store, issued |-> issued1, raised |-> dropped.raised]
        ELSE [store |-> created.store,
              issued |-> Append(issued1, create_table_query),
              raised |-> created.raised]

-----------------------------------------------------------------------------
(* Batches.  A batch is a sequence of rows, a row a record of cells, a     *)
(* cell a typed value [t |-> <type>, v |-> <value>].                       *)

\* polars dtype -> Arrow type of DataFrame.to_arrow()
ArrowType(dtype) ==
    CASE dtype = "Utf8" -> "large_string"
      [] dtype = "Int64" -> "int64"
      [] dtype = "Float64" -> "double"
      [] dtype = "Boolean" -> "bool"
      [] dtype = "Date" -> "date32"
      [] dtype = "Datetime" -> "timestamp[us]"
      [] dtype = "Decimal(38, 18)" -> "decimal128(38, 18)"
      [] OTHER -> dtype

\* A null cell has a type and no value.
NullCell(dtype) == [t |-> dtype]

IsNull(cell) == "v" \notin DOMAIN cell

\* df.to_arrow(): the same rows, every column in its Arrow type.
to_arrow(df) ==
    [k \in 1..Len(df) |->
        [f \in DOMAIN df[k] |->
            IF IsNull(df[k][f])
            THEN NullCell(ArrowType(df[k][f].t))
            ELSE [t |-> ArrowType(df[k][f].t), v |-> df[k][f].v]]]

\* Variant of save_to_clickhouse: a refused insert is tried once more.
save_to_clickhouse_retry(cls, df, st, table_name, database, outcome) ==
    LET arrow == to_arrow(df)
        target == QualifiedName(database, table_name)
        insert == [verb |-> "INSERT", target |-> target, rows |-> arrow]
        r == ClientInsertArrow(st, target, arrow, outcome)
        again == ClientInsertArrow(st, target, arrow, "ok")
    IN  IF r.raised = None
        THEN [store |-> r.store, issued |-> <<insert>>, raised |-> None]
        ELSE [store |-> again.store, issued |-> <<insert, insert>>,
              raised |-> again.raised]

\* cls.save_to_clickhouse(df, client, table_name, database)
save_to_clickhouse(cls, df, st, table_name, database, outcome) ==
    LET arrow == to_arrow(df)
        target == QualifiedName(database, table_name)
        r == ClientInsertArrow(st, target, arrow, outcome)
    IN  [store |-> r.store,
         issued |-> <<[verb |-> "INSERT", target |-> target, rows |-> arrow]>>,
         raised |-> r.raised]

-----------------------------------------------------------------------------
(* Provisioning specification: any sequence of create_clickhouse_table and *)
(* save_to_clickhouse calls, of any entity class, on one table that starts *)
(* absent; every store call may raise.                                     *)

\* The record of one call: its arguments, the table as it was before, what the
\* store answered to its commands, the commands it issued and what it raised.
NoCall == [op |-> "none", cls |-> "", target |-> "", drop_existing |-> FALSE,
           before |-> NoTable, answers |-> <<>>, issued |-> <<>>, raised |-> None]

Unset == <<>>

\* The table_name every call of the provisioning specification passes.
ProvTableName == "trades_f"

\* What the store answers to the (at most two) commands of one call: all
\* succeed, or one of them raises.
OutcomePlans ==
    {<<"ok", "ok">>} \cup {<<e, "ok">> : e \in StoreErrors}
                     \cup {<<"ok", e>> : e \in StoreErrors}

\* The batch a provisioning-specification write inserts: one row.
ProvBatch == << [id |-> [t |-> "Int64", v |-> 1]] >>

ProvInit ==
    /\ store = EmptyStore
    /\ last = NoCall
    /\ pc = 0
    /\ status = "idle"
    /\ error = None
    /\ trace = <<>>
    /\ seed = 0
    /\ books_df = Unset
    /\ counterparty_df = Unset
    /\ instrument_df = Unset
    /\ trades_df = Unset
    /\ risk_df = Unset
    /\ risk_mv = Unset
    /\ pnl_eod = Unset

ProvCreate ==
    \E cls \in Entities, drop_existing \in BOOLEAN, outcomes \in OutcomePlans :
        LET r == create_clickhouse_table(cls, store, ProvTableName, DefaultDatabase,
                                         drop_existing, DefaultOrderBy(cls), outcomes)
            target == QualifiedName(DefaultDatabase, ProvTableName)
        IN  /\ store' = r.store
            /\ last' = [op |-> "create_clickhouse_table", cls |-> cls, target |-> target,
                        drop_existing |-> drop_existing, before |-> store[target],
                        answers |-> outcomes, issued |-> r.issued, raised |-> r.raised]
            /\ UNCHANGED <<entry, batches>>

ProvSave ==
    \E cls \in Entities, outcome \in Outcomes :
        LET r == save_to_clickhouse(cls, ProvBatch, store, ProvTableName, DefaultDatabase,
                                    outcome)
            target == QualifiedName(DefaultDatabase, ProvTableName)
        IN  /\ Len(store[target].rows) + Len(ProvBatch) <= MaxTableRows
            /\ store' = r.store
            /\ last' = [op |-> "save_to_clickhouse", cls |-> cls, target |-> target,
                        drop_existing |-> FALSE, before |-> store[target],
                        answers |-> <<outcome>>, issued |-> r.issued,
                        raised |-> r.raised]
            /\ UNCHANGED <<entry, batches>>

ProvNext == ProvCreate \/ ProvSave

ProvSpec == ProvInit /\ [][ProvNext]_vars

-----------------------------------------------------------------------------
(* Claims on table provisioning, checked under ProvSpec.                   *)

LastIsCreate == last.op = "create_clickhouse_table"

\* The index, among the commands of the last call, of the first one the store
\* answered with an error (0: none).
FirstFailure ==
    IF \E k \in 1..Len(last.issued) : last.answers[k] # "ok"
    THEN CHOOSE k \in 1..Len(last.issued) :
            /\ last.answers[k] # "ok"
            /\ \A j \in 1..(k - 1) : last.answers[j] = "ok"
    ELSE 0

\* C7: whatever the store raises while executing the DROP or the CREATE of
\* create_clickhouse_table is what the call raises, unchanged; the failing
\* command is the last one issued, so a failed DROP is not followed by the CREATE;
\* and the call raises nothing the store did not raise.
C7_DdlErrorPropagates ==
    LastIsCreate =>
        /\ \A k \in 1..Len(last.issued) :
              last.answers[k] # "ok" =>
                  /\ last.raised = last.answers[k]
                  /\ k = Len(last.issued)
        /\ (last.drop_existing /\ last.answers[1] # "ok") =>
              /\ last.raised = last.answers[1]
              /\ \A k \in 1..Len(last.issued) :
                    last.issued[k].verb # "CREATE TABLE IF NOT EXISTS"
        /\ (FirstFailure = 0) => last.raised = None

\* C7 witness: a DROP that the store refused; the call raised that error.
C7_Witness ==
    /\ LastIsCreate
    /\ last.drop_existing
    /\ last.answers[1] = "DatabaseError"
    /\ last.raised = "DatabaseError"
    /\ Len(last.issued) = 1

\* C8: a create_clickhouse_table call with drop_existing=True that returns leaves
\* the target table existing, with zero rows and with exactly the columns of the
\* entity (so two such calls give the same column set), whatever the table was
\* before: absent, empty, holding rows, or created for another entity.
C8_DropCreateLeavesEmptyTable ==
    (LastIsCreate /\ last.drop_existing /\ last.raised = None) =>
        /\ store[last.target].exists
        /\ store[last.target].rows = <<>>
        /\ store[last.target].columns = FieldDefinitions(last.cls)
        /\ (last.before.exists /\ last.before.rows = <<>>
                /\ last.before.columns = FieldDefinitions(last.cls)
                /\ last.before.version_column = EngineVersionColumn(last.cls)
                /\ last.before.order_by = DefaultOrderBy(last.cls))
              => store[last.target] = last.before

\* C8 witness: the table held rows, under another entity's columns, before the
\* call that returned.
C8_Witness ==
    /\ LastIsCreate
    /\ last.drop_existing
    /\ last.raised = None
    /\ last.before.exists
    /\ last.before.rows # <<>>
    /\ last.before.columns # FieldDefinitions(last.cls)
    /\ store[last.target].rows = <<>>

\* C9: create_clickhouse_table with drop_existing=False on a table that exists
\* issues no DROP, raises no duplicate-create error and leaves the table (rows,
\* columns, engine, ordering key) exactly as it was.
C9_NoDropKeepsTable ==
    (LastIsCreate /\ ~last.drop_existing /\ last.before.exists) =>
        /\ \A k \in 1..Len(last.issued) : last.issued[k].verb # "DROP TABLE IF EXISTS"
        /\ last.raised # "TABLE_ALREADY_EXISTS"
        /\ (last.answers[1] = "ok") => last.raised = None
        /\ store[last.target] = last.before

\* C9 witness: the table held rows before a drop_existing=False call of another
\* entity that returned.
C9_Witness ==
    /\ LastIsCreate
    /\ ~last.drop_existing
    /\ last.raised = None
    /\ last.before.exists
    /\ last.before.rows # <<>>
    /\ last.before.columns # FieldDefinitions(last.cls)

\* C10: with drop_existing=True the call issues DROP TABLE IF EXISTS db.table and
\* then CREATE TABLE IF NOT EXISTS db.table, in that order, both naming the table
\* of the call, and nothing else (only the DROP when the store refuses it); with
\* drop_existing=False it issues exactly one command, the CREATE.
C10_CommandsIssued ==
    LastIsCreate =>
        LET drop == [verb |-> "DROP TABLE IF EXISTS", target |-> last.target]
            n == Len(last.issued)
        IN  IF last.drop_existing
            THEN /\ n = (IF last.answers[1] = "ok" THEN 2 ELSE 1)
                 /\ last.issued[1] = drop
                 /\ n = 2 => /\ last.issued[2].verb = "CREATE TABLE IF NOT EXISTS"
                             /\ last.issued[2].target = last.issued[1].target
            ELSE /\ n = 1
                 /\ last.issued[1].verb = "CREATE TABLE IF NOT EXISTS"
                 /\ last.issued[1].target = last.target

\* C10 witness: a drop_existing=True call that issued both commands.
C10_Witness ==
    /\ LastIsCreate
    /\ last.drop_existing
    /\ Len(last.issued) = 2
    /\ last.raised = None

-----------------------------------------------------------------------------
(* Synthetic record generators.  A Python value is [py |-> <type>, v |-> _] *)
(* (None: [py |-> "NoneType"]).  The random source is an argument: `draws` *)
(* holds the outcome of every random call of one run of the generator.     *)
(* The columns modelled are the keys and references of each entity.        *)

PyStr(s) == [py |-> "str", v |-> s]

PyInt(n) == [py |-> "int", v |-> n]

PyNone == [py |-> "NoneType"]

\* A datetime.date.
PyDate(d) == [py |-> "date", v |-> d]

\* date.today(), read once by a generator call.
Today == "today"

\* Decimal(str(round(x, places))): the number coeff * 10^-exp.
PyDecimal(coeff, exp) == [py |-> "Decimal", v |-> [coeff |-> coeff, exp |-> exp]]

RECURSIVE Pow10(_)
Pow10(n) == IF n = 0 THEN 1 ELSE 10 * Pow10(n - 1)

\* The last `width` decimal digits of n, as text.
RECURSIVE DigitsOf(_, _)
DigitsOf(n, width) ==
    IF width = 0 THEN "" ELSE DigitsOf(n \div 10, width - 1) \o ToString(n % 10)

\* The text of a decimal, as a non-strict cast to a string column writes it.
DecimalStr(d) ==
    LET abs == IF d.coeff < 0 THEN 0 - d.coeff ELSE d.coeff IN
    (IF d.coeff < 0 THEN "-" ELSE "")
        \o ToString(abs \div Pow10(d.exp))
        \o (IF d.exp = 0 THEN "" ELSE "." \o DigitsOf(abs % Pow10(d.exp), d.exp))

\* The annotation of field f of cls.
Annotation(cls, f) ==
    LET fs == model_fields(cls)
        k == CHOOSE j \in 1..Len(fs) : fs[j][1] = f
    IN  fs[k][2]

\* One value of a column built by pl.DataFrame(data, schema=schema, strict=False)
\* from a Python list: None is a null of the column's type, a str in a Utf8
\* column and an int in an Int64 column keep their value, a Decimal in
\* a Decimal(38, 18) column keeps its value, and a Decimal in a Utf8 column is
\* written as its text; a date in a Date column keeps its value.
Cast(value, dtype) ==
    CASE value.py = "NoneType" -> NullCell(dtype)
      [] value.py = "str" /\ dtype = "Utf8" -> [t |-> "Utf8", v |-> value.v]
      [] value.py = "int" /\ dtype = "Int64" -> [t |-> "Int64", v |-> value.v]
      [] value.py = "date" /\ dtype = "Date" -> [t |-> "Date", v |-> value.v]
      [] value.py = "Decimal" /\ dtype = "Decimal(38, 18)" ->
            [t |-> "Decimal(38, 18)", v |-> value.v]
      [] value.py = "Decimal" /\ dtype = "Utf8" -> [t |-> "Utf8", v |-> DecimalStr(value.v)]

\* One value of a column built from a pl.Series of the schema's own type.
CastSeries(cell, dtype) ==
    CASE cell.t = dtype -> cell

\* schema = {field_name: get_polars_type(field.annotation) ...} for field f
SchemaType(cls, f) == get_polars_type(Annotation(cls, f))

\* pl.DataFrame(data, schema=schema, strict=False), data given row by row; a
\* value is a Python value (from a list) or a cell (from a Series).
DataFrame(cls, data) ==
    [k \in 1..Len(data) |->
        [f \in DOMAIN data[k] |->
            IF "py" \in DOMAIN data[k][f]
            THEN Cast(data[k][f], SchemaType(cls, f))
            ELSE CastSeries(data[k][f], SchemaType(cls, f))]]

\* df[column].to_list()
ToList(df, column) ==
    [k \in 1..Len(df) |->
        IF IsNull(df[k][column]) THEN PyNone
        ELSE [py |-> (IF df[k][column].t = "Int64" THEN "int" ELSE "str"),
              v |-> df[k][column].v]]

\* HmsBook.generate_random_books_df(num_records); draws.name[k] is the k-th
\* fake.unique.random_number(digits=6).
generate_random_books_df(num_records, draws) ==
    DataFrame("HmsBook",
        [k \in 1..num_records |-> [name |-> PyStr("BOOK_" \o ToString(draws.name[k]))]])

\* Counterparty.generate_random_counterparties_df(num_records); draws.name[k] is
\* the k-th fake.company().
generate_random_counterparties_df(num_records, draws) ==
    DataFrame("Counterparty",
        [k \in 1..num_records |-> [name |-> PyStr(draws.name[k])]])

\* Instrument.generate_random_instruments_df(num_records); draws.id[k] is the
\* k-th fake.unique.random_number(digits=8), draws.company[k] and draws.type[k]
\* the k-th fake.company() and random.choice(types).
generate_random_instruments_df(num_records, draws) ==
    DataFrame("Instrument",
        [k \in 1..num_records |->
            [id |-> PyStr("INST_" \o ToString(draws.id[k])),
             name |-> PyStr(draws.company[k] \o " " \o draws.type[k])]])

\* random.choice(seq), the random source picking position `index`.
RandomChoice(seq, index) == seq[index]

\* Variant of generate_random_trades_df: collatDesc is sampled on its own, not
\* taken from the instrument that gave collatId.
generate_random_trades_df_unpaired(num_records, counterparties, instruments, books, draws) ==
    LET counterparty_list == ToList(counterparties, "name")
        ids == ToList(instruments, "id")
        names == ToList(instruments, "name")
        books_list == ToList(books, "name")
        empty == counterparty_list = <<>> \/ ids = <<>> \/ books_list = <<>>
        row(k) ==
            [id |-> PyInt(draws.id[k]),
             version |-> PyInt(0),
             tradeId |-> PyStr(ToString(draws.tradeId[k])),
             hmsBook |-> RandomChoice(books_list, draws.book[k]),
             counterParty |-> RandomChoice(counterparty_list, draws.counterparty[k]),
             collatId |-> RandomChoice(ids, draws.instrument[k]),
             collatDesc |-> RandomChoice(names, Len(names) + 1 - draws.instrument[k])]
    IN  IF num_records >= 1 /\ empty
        THEN [raised |-> "IndexError", df |-> <<>>]
        ELSE [raised |-> None,
              df |-> DataFrame("Trade", [k \in 1..num_records |-> row(k)])]

\* Variant of generate_random_trades_df: the loop stops one record early.
generate_random_trades_df_short(num_records, counterparties, instruments, books, draws) ==
    LET counterparty_list == ToList(counterparties, "name")
        ids == ToList(instruments, "id")
        names == ToList(instruments, "name")
        instrument_pairs == [k \in 1..Len(instruments) |-> <<ids[k], names[k]>>]
        books_list == ToList(books, "name")
        empty == counterparty_list = <<>> \/ instrument_pairs = <<>> \/ books_list = <<>>
        row(k) ==
            LET pair == RandomChoice(instrument_pairs, draws.instrument[k]) IN
            [id |-> PyInt(draws.id[k]),
             version |-> PyInt(0),
             tradeId |-> PyStr(ToString(draws.tradeId[k])),
             hmsBook |-> RandomChoice(books_list, draws.book[k]),
             counterParty |-> RandomChoice(counterparty_list, draws.counterparty[k]),
             qmlError |-> PyNone,
             collatId |-> pair[1],
             collatDesc |-> pair[2],
             iaAmount |-> PyNone,
             pxFactorInception |-> PyNone]
    IN  IF num_records >= 1 /\ empty
        THEN [raised |-> "IndexError", df |-> <<>>]
        ELSE [raised |-> None,
              df |-> DataFrame("Trade", [k \in 1..(num_records - 1) |-> row(k)])]

\* Trade.generate_random_trades_df(num_records, counterparty_df, instrument_df,
\* books_df), the three batches supplied (here: counterparties, instruments,
\* books; `books_list` is the local `books`).  Per record, draws gives
\* fake.unique.random_number(digits=15) (id), fake.random_number(digits=8)
\* (tradeId) and the positions random.choice picks in books, instrument_pairs
\* and counterparty_list.  random.choice of an empty list raises IndexError.
\* qmlError, iaAmount and pxFactorInception are appended as None.
generate_random_trades_df(num_records, counterparties, instruments, books, draws) ==
    LET counterparty_list == ToList(counterparties, "name")
        ids == ToList(instruments, "id")
        names == ToList(instruments, "name")
        instrument_pairs == [k \in 1..Len(instruments) |-> <<ids[k], names[k]>>]
        books_list == ToList(books, "name")
        empty == counterparty_list = <<>> \/ instrument_pairs = <<>> \/ books_list = <<>>
        row(k) ==
            LET pair == RandomChoice(instrument_pairs, draws.instrument[k]) IN
            [id |-> PyInt(draws.id[k]),
             version |-> PyInt(0),
             tradeId |-> PyStr(ToString(draws.tradeId[k])),
             hmsBook |-> RandomChoice(books_list, draws.book[k]),
             counterParty |-> RandomChoice(counterparty_list, draws.counterparty[k]),
             qmlError |-> PyNone,
             collatId |-> pair[1],
             collatDesc |-> pair[2],
             iaAmount |-> PyNone,
             pxFactorInception |-> PyNone]
    IN  IF num_records >= 1 /\ empty
        THEN [raised |-> "IndexError", df |-> <<>>]
        ELSE [raised |-> None,
              df |-> DataFrame("Trade", [k \in 1..num_records |-> row(k)])]

\* df.select(columns)
Select(df, columns) == [k \in 1..Len(df) |-> [f \in columns |-> df[k][f]]]

\* Variant of Repeat: every record is re-sampled (here: the first one is taken
\* each time) instead of the batch being repeated.
Repeat_resampled(df, n) == [k \in 1..(Len(df) * n) |-> df[1]]

\* pl.concat([df] * n, how="vertical") for n >= 1: the rows of df, n times over.
Repeat(df, n) == [k \in 1..(Len(df) * n) |-> df[((k - 1) % Len(df)) + 1]]

\* Variant of the Risk generator: the tradeId column is taken from the records
\* in reverse order, so a row mixes the fields of two trades.
generate_random_risks_from_trades_df_misaligned(trades, num_risks_per_trade) ==
    LET selected == Select(trades, {"id", "tradeId", "counterParty", "collatId",
                                    "collatDesc"})
        trade_records == Repeat(selected, num_risks_per_trade)
        num_records == Len(trade_records)
        base_date == Today
        row(k) ==
            [asOfDate |-> PyDate(base_date),
             id |-> trade_records[k].id,
             tradeId |-> trade_records[num_records + 1 - k].tradeId,
             counterParty |-> trade_records[k].counterParty,
             collatId |-> trade_records[k].collatId,
             collatDesc |-> trade_records[k].collatDesc,
             collatName |-> PyStr("Collateral_" \o ToString(k - 1))]
    IN  IF num_risks_per_trade = 0
        THEN [raised |-> "ValueError", df |-> <<>>]
        ELSE [raised |-> None,
              df |-> DataFrame("Risk", [k \in 1..num_records |-> row(k)])]

\* Variant of the Risk generator: asOfDate is taken anew for every repetition of
\* the batch, as calculatedAt is.
generate_random_risks_from_trades_df_dated(trades, num_risks_per_trade) ==
    LET selected == Select(trades, {"id", "tradeId", "counterParty", "collatId",
                                       "collatDesc"})
        trade_records == Repeat(selected, num_risks_per_trade)
        num_records == Len(trade_records)
        base_date == Today
        row(k) ==
            [asOfDate |-> PyDate(base_date \o "-" \o ToString(k \div Len(trades))),
             id |-> trade_records[k].id,
             tradeId |-> trade_records[k].tradeId,
             counterParty |-> trade_records[k].counterParty,
             collatId |-> trade_records[k].collatId,
             collatDesc |-> trade_records[k].collatDesc,
             collatName |-> PyStr("Collateral_" \o ToString(k - 1))]
    IN  IF num_risks_per_trade = 0
        THEN [raised |-> "ValueError", df |-> <<>>]
        ELSE [raised |-> None,
              df |-> DataFrame("Risk", [k \in 1..num_records |-> row(k)])]

\* Risk.generate_random_risks_from_trades_df(trades_df, num_risks_per_trade).
\* pl.concat of an empty list raises ValueError.
generate_random_risks_from_trades_df(trades, num_risks_per_trade) ==
    LET selected == Select(trades, {"id", "tradeId", "counterParty", "collatId",
                                       "collatDesc"})
        trade_records == Repeat(selected, num_risks_per_trade)
        num_records == Len(trade_records)
        base_date == Today
        row(k) ==
            [asOfDate |-> PyDate(base_date),
             id |-> trade_records[k].id,
             tradeId |-> trade_records[k].tradeId,
             counterParty |-> trade_records[k].counterParty,
             collatId |-> trade_records[k].collatId,
             collatDesc |-> trade_records[k].collatDesc,
             collatName |-> PyStr("Collateral_" \o ToString(k - 1))]
    IN  IF num_risks_per_trade = 0
        THEN [raised |-> "ValueError", df |-> <<>>]
        ELSE [raised |-> None,
              df |-> DataFrame("Risk", [k \in 1..num_records |-> row(k)])]

\* Variant of the RiskMV generator: with num_risks_per_trade = 0 it returns an
\* empty batch.
generate_random_risks_mv_from_trades_df_empty(trades, num_risks_per_trade, draws) ==
    LET selected == Select(trades, {"id", "tradeId", "counterParty", "hmsBook"})
        trade_records == Repeat(selected, num_risks_per_trade)
        num_records == Len(trade_records)
        row(k) ==
            [id |-> PyStr(draws.id[k]),
             book |-> trade_records[k].hmsBook,
             tradeId |-> trade_records[k].tradeId,
             counterparty |-> trade_records[k].counterParty]
    IN  IF num_risks_per_trade = 0
        THEN [raised |-> None, df |-> <<>>]
        ELSE [raised |-> None,
              df |-> DataFrame("RiskMV", [k \in 1..num_records |-> row(k)])]

\* RiskMV.generate_random_risks_from_trades_df(trades_df, num_risks_per_trade);
\* draws.id[k] is the k-th str(fake.uuid4()).
generate_random_risks_mv_from_trades_df(trades, num_risks_per_trade, draws) ==
    LET selected == Select(trades, {"id", "tradeId", "counterParty", "hmsBook"})
        trade_records == Repeat(selected, num_risks_per_trade)
        num_records == Len(trade_records)
        row(k) ==
            [id |-> PyStr(draws.id[k]),
             book |-> trade_records[k].hmsBook,
             tradeId |-> trade_records[k].tradeId,
             counterparty |-> trade_records[k].counterParty]
    IN  IF num_risks_per_trade = 0
        THEN [raised |-> "ValueError", df |-> <<>>]
        ELSE [raised |-> None,
              df |-> DataFrame("RiskMV", [k \in 1..num_records |-> row(k)])]

\* Variant of the PnLEod generator: one row per trade, the books not reduced
\* to the distinct ones.
generate_random_pnl_eod_df_per_trade(trades, unique_books, draws) ==
    LET books == ToList(trades, "hmsBook")
        num_records == Len(books)
    IN  DataFrame("PnLEod",
            [k \in 1..num_records |->
                [id |-> PyStr("uuid4-" \o ToString(k)), book |-> books[k]]])

\* PnLEod.generate_random_pnl_eod_df(trades_df).  trades_df['hmsBook'].unique()
\* returns the distinct values in no specified order: `unique_books` is that
\* list, any ordering of the distinct values; draws.id[k] is the k-th
\* str(fake.uuid4()).
generate_random_pnl_eod_df(trades, unique_books, draws) ==
    LET num_records == Len(unique_books) IN
    DataFrame("PnLEod",
        [k \in 1..num_records |-> [id |-> PyStr(draws.id[k]), book |-> unique_books[k]]])

\* The orderings Series.unique() may return for a column: the sequences that
\* hold each distinct cell of the column exactly once.
UniqueOrders(df, column) ==
    LET values == {ToList(df, column)[k] : k \in 1..Len(df)}
        n == Cardinality(values)
    IN  {s \in [1..n -> values] : \A v \in values : \E k \in 1..n : s[k] = v}

-----------------------------------------------------------------------------
(* Generator specification: the reference batches are given (Init draws    *)
(* them from the batches the reference generators return), then            *)
(* Trade.generate_random_trades_df is called once on them and one of the   *)
(* dependent generators once on its result, each with any outcome of the   *)
(* random source.                                                          *)

\* Numbers of records of the reference batches.
RefRecordCounts == {0, 1, 2}

\* Values fake.company() returns.
CompanyNames == <<"Abbott Ltd", "Baker Inc">>

\* The reference batches of Init: distinct book names and instrument ids, company
\* names taken in turn.
RefBooks(n) == generate_random_books_df(n, [name |-> [k \in 1..n |-> 100000 + k]])

RefCounterparties(n) ==
    generate_random_counterparties_df(n,
        [name |-> [k \in 1..n |-> CompanyNames[((k - 1) % Len(CompanyNames)) + 1]]])

RefInstruments(n) ==
    generate_random_instruments_df(n,
        [id |-> [k \in 1..n |-> 10000000 + k],
         company |-> [k \in 1..n |-> CompanyNames[((k - 1) % Len(CompanyNames)) + 1]],
         type |-> [k \in 1..n |-> "BOND"]])

\* Values fake.unique.random_number(digits=15) returns for Trade.id (small
\* numbers stand for the 15-digit ones).
TradeIdNumbers == 1..MaxRecords

\* Values fake.random_number(digits=8) returns for Trade.tradeId.
TradeIdStrings == {10000001, 10000002}

\* Sequences of n pairwise distinct elements of S: n draws of fake.unique.
UniqueSeqs(S, n) ==
    {s \in [1..n -> S] : \A i, j \in 1..n : i # j => s[i] # s[j]}

\* Positions random.choice may pick in a list of the given length.
Positions(len) == IF len = 0 THEN {0} ELSE 1..len

\* str(fake.uuid4()) values: pairwise distinct.
UuidDraws(n) == [id |-> [k \in 1..n |-> "uuid4-" \o ToString(k)]]

GenCall(op, num, raised) == [op |-> op, num |-> num, raised |-> raised]

GenInit ==
    /\ store = EmptyStore
    /\ last = NoCall
    /\ pc = 0
    /\ status = "idle"
    /\ error = None
    /\ trace = <<>>
    /\ seed = 0
    /\ \E nb \in RefRecordCounts : books_df = RefBooks(nb)
    /\ \E nc \in RefRecordCounts : counterparty_df = RefCounterparties(nc)
    /\ \E ni \in RefRecordCounts : instrument_df = RefInstruments(ni)
    /\ trades_df = Unset
    /\ risk_df = Unset
    /\ risk_mv = Unset
    /\ pnl_eod = Unset

GenerateTrades ==
    /\ last.op = "none"
    /\ \E num_records \in 0..MaxRecords :
       \E id \in UniqueSeqs(TradeIdNumbers, num_records),
          tradeId \in [1..num_records -> TradeIdStrings],
          book \in [1..num_records -> Positions(Len(books_df))],
          counterparty \in [1..num_records -> Positions(Len(counterparty_df))],
          instrument \in [1..num_records -> Positions(Len(instrument_df))] :
            LET r == generate_random_trades_df(num_records, counterparty_df,
                        instrument_df, books_df,
                        [id |-> id, tradeId |-> tradeId, book |-> book,
                         counterparty |-> counterparty, instrument |-> instrument])
            IN  /\ trades_df' = IF r.raised = None THEN r.df ELSE trades_df
                /\ last' = GenCall("Trade.generate_random_trades_df", num_records,
                                   r.raised)
    /\ UNCHANGED <<store, entry, books_df, counterparty_df, instrument_df, risk_df,
                   risk_mv, pnl_eod>>

TradesGenerated ==
    /\ last.op = "Trade.generate_random_trades_df"
    /\ last.raised = None

GenerateRisks ==
    /\ TradesGenerated
    /\ \E num_risks_per_trade \in 0..MaxRisksPerTrade :
            LET r == generate_random_risks_from_trades_df(trades_df, num_risks_per_trade)
            IN  /\ risk_df' = IF r.raised = None THEN r.df ELSE risk_df
                /\ last' = GenCall("Risk.generate_random_risks_from_trades_df",
                                   num_risks_per_trade, r.raised)
    /\ UNCHANGED <<store, entry, books_df, counterparty_df, instrument_df, trades_df,
                   risk_mv, pnl_eod>>

GenerateRiskMV ==
    /\ TradesGenerated
    /\ \E num_risks_per_trade \in 0..MaxRisksPerTrade :
            LET r == generate_random_risks_mv_from_trades_df(trades_df,
                        num_risks_per_trade,
                        UuidDraws(Len(trades_df) * num_risks_per_trade))
            IN  /\ risk_mv' = IF r.raised = None THEN r.df ELSE risk_mv
                /\ last' = GenCall("RiskMV.generate_random_risks_from_trades_df",
                                   num_risks_per_trade, r.raised)
    /\ UNCHANGED <<store, entry, books_df, counterparty_df, instrument_df, trades_df,
                   risk_df, pnl_eod>>

GeneratePnlEod ==
    /\ TradesGenerated
    /\ \E unique_books \in UniqueOrders(trades_df, "hmsBook") :
            /\ pnl_eod' = generate_random_pnl_eod_df(trades_df, unique_books,
                                                     UuidDraws(Len(unique_books)))
            /\ last' = GenCall("PnLEod.generate_random_pnl_eod_df", 0, None)
    /\ UNCHANGED <<store, entry, books_df, counterparty_df, instrument_df, trades_df,
                   risk_df, risk_mv>>

GenNext == GenerateTrades \/ GenerateRisks \/ GenerateRiskMV \/ GeneratePnlEod

GenSpec == GenInit /\ [][GenNext]_vars

-----------------------------------------------------------------------------
(* Claims on the generators, checked under GenSpec.                        *)

Rows(df) == 1..Len(df)

\* C1: every row of the batch Trade.generate_random_trades_df returns has
\* counterParty equal to the name of a row of the counterparty batch, hmsBook
\* equal to the name of a row of the books batch, and (collatId, collatDesc)
\* equal to the (id, name) of one single row of the instrument batch.
C1_TradeReferencesExist ==
    \A k \in Rows(trades_df) :
        /\ \E c \in Rows(counterparty_df) :
              trades_df[k].counterParty = counterparty_df[c].name
        /\ \E b \in Rows(books_df) : trades_df[k].hmsBook = books_df[b].name
        /\ \E i \in Rows(instrument_df) :
              /\ trades_df[k].collatId = instrument_df[i].id
              /\ trades_df[k].collatDesc = instrument_df[i].name

\* C1 witness: a batch of two trades on reference batches of two records each,
\* the two trades referring to different instruments.
C1_Witness ==
    /\ last.op = "Trade.generate_random_trades_df"
    /\ Len(trades_df) = 2
    /\ Len(books_df) = 2 /\ Len(counterparty_df) = 2 /\ Len(instrument_df) = 2
    /\ trades_df[1].collatId # trades_df[2].collatId
    /\ trades_df[1].hmsBook # trades_df[2].hmsBook

\* The fields a Risk row takes from its trade, and the same fields of a trade.
RiskRef(r) == <<r.id, r.tradeId, r.counterParty, r.collatId, r.collatDesc>>

\* The fields a RiskMV row takes from its trade, and the same fields of a trade.
RiskMVRef(r) == <<r.tradeId, r.counterparty, r.book>>

TradeRefForRiskMV(t) == <<t.tradeId, t.counterParty, t.hmsBook>>

\* C2: every row of the Risk batch carries (id, tradeId, counterParty, collatId,
\* collatDesc) of one single row of the trades batch, and every row of the RiskMV
\* batch carries (tradeId, counterparty, book) equal to (tradeId, counterParty,
\* hmsBook) of one single row of the trades batch.
C2_RiskRowsCopyOneTrade ==
    /\ \A k \in Rows(risk_df) :
          \E j \in Rows(trades_df) : RiskRef(risk_df[k]) = RiskRef(trades_df[j])
    /\ \A k \in Rows(risk_mv) :
          \E j \in Rows(trades_df) :
              RiskMVRef(risk_mv[k]) = TradeRefForRiskMV(trades_df[j])

\* C2 witness: a Risk batch generated from two trades that differ in tradeId and
\* in collateral.
C2_Witness ==
    /\ last.op = "Risk.generate_random_risks_from_trades_df"
    /\ last.num = 2
    /\ Len(trades_df) = 2
    /\ Len(risk_df) = 4
    /\ trades_df[1].tradeId # trades_df[2].tradeId
    /\ trades_df[1].collatId # trades_df[2].collatId

\* The trades batch has pairwise distinct ids.
DistinctTradeIds ==
    \A i, j \in Rows(trades_df) : i # j => trades_df[i].id # trades_df[j].id

RiskCallReturned ==
    /\ last.op = "Risk.generate_random_risks_from_trades_df"
    /\ last.raised = None
    /\ last.num >= 1

RiskMVCallReturned ==
    /\ last.op = "RiskMV.generate_random_risks_from_trades_df"
    /\ last.raised = None
    /\ last.num >= 1

\* C3 as stated: with N = num_risks_per_trade >= 1 and P trades of pairwise
\* distinct ids, both generators return N x P rows and every trade is the
\* referenced parent of exactly N rows of the result.
C3_Original_ExactlyNPerTrade ==
    /\ (RiskCallReturned /\ DistinctTradeIds) =>
          /\ Len(risk_df) = last.num * Len(trades_df)
          /\ \A j \in Rows(trades_df) :
                Cardinality({k \in Rows(risk_df) :
                                RiskRef(risk_df[k]) = RiskRef(trades_df[j])}) = last.num
    /\ (RiskMVCallReturned /\ DistinctTradeIds) =>
          /\ Len(risk_mv) = last.num * Len(trades_df)
          /\ \A j \in Rows(trades_df) :
                Cardinality({k \in Rows(risk_mv) :
                                RiskMVRef(risk_mv[k]) = TradeRefForRiskMV(trades_df[j])})
                    = last.num

\* C3 amended: both generators return N x P rows, row k being copied from trade
\* ((k - 1) mod P) + 1 (the batch is repeated); every trade id occurs in exactly N
\* rows of the Risk batch; in the RiskMV batch, which does not carry the trade
\* id, the reference (tradeId, counterparty, book) of a trade occurs N times for
\* each trade of the batch that holds it, so exactly N times only when no other
\* trade has the same tradeId, counterParty and hmsBook.
C3_FanOut ==
    /\ (RiskCallReturned /\ DistinctTradeIds) =>
          /\ Len(risk_df) = last.num * Len(trades_df)
          /\ \A k \in Rows(risk_df) :
                RiskRef(risk_df[k]) = RiskRef(trades_df[((k - 1) % Len(trades_df)) + 1])
          /\ \A j \in Rows(trades_df) :
                Cardinality({k \in Rows(risk_df) : risk_df[k].id = trades_df[j].id})
                    = last.num
    /\ (RiskMVCallReturned /\ DistinctTradeIds) =>
          /\ Len(risk_mv) = last.num * Len(trades_df)
          /\ \A k \in Rows(risk_mv) :
                RiskMVRef(risk_mv[k])
                    = TradeRefForRiskMV(trades_df[((k - 1) % Len(trades_df)) + 1])
          /\ \A j \in Rows(trades_df) :
                Cardinality({k \in Rows(risk_mv) :
                                RiskMVRef(risk_mv[k]) = TradeRefForRiskMV(trades_df[j])})
                    = last.num * Cardinality({i \in Rows(trades_df) :
                                    TradeRefForRiskMV(trades_df[i])
                                        = TradeRefForRiskMV(trades_df[j])})

\* C3 witness: RiskMV rows generated with N = 2 from two trades of distinct ids
\* that share tradeId, counterParty and hmsBook.
C3_Witness ==
    /\ RiskMVCallReturned
    /\ last.num = 2
    /\ Len(trades_df) = 2
    /\ trades_df[1].id # trades_df[2].id
    /\ TradeRefForRiskMV(trades_df[1]) = TradeRefForRiskMV(trades_df[2])
    /\ Len(risk_mv) = 4

-----------------------------------------------------------------------------
(* The entry point: fake_financing.py, if __name__ == "__main__".          *)

\* The statements of the entry point, in program order.
Main ==
    << [stmt |-> "get_client", cls |-> ""],
       [stmt |-> "create_clickhouse_table", cls |-> "Trade"],
       [stmt |-> "create_clickhouse_table", cls |-> "Risk"],
       [stmt |-> "create_clickhouse_table", cls |-> "Counterparty"],
       [stmt |-> "create_clickhouse_table", cls |-> "Instrument"],
       [stmt |-> "create_clickhouse_table", cls |-> "HmsBook"],
       [stmt |-> "create_clickhouse_table", cls |-> "RiskMV"],
       [stmt |-> "create_clickhouse_table", cls |-> "PnLEod"],
       [stmt |-> "generate", cls |-> "HmsBook"],
       [stmt |-> "save_to_clickhouse", cls |-> "HmsBook"],
       [stmt |-> "generate", cls |-> "Counterparty"],
       [stmt |-> "save_to_clickhouse", cls |-> "Counterparty"],
       [stmt |-> "generate", cls |-> "Instrument"],
       [stmt |-> "save_to_clickhouse", cls |-> "Instrument"],
       [stmt |-> "generate", cls |-> "Trade"],
       [stmt |-> "save_to_clickhouse", cls |-> "Trade"],
       [stmt |-> "generate", cls |-> "RiskMV"],
       [stmt |-> "save_to_clickhouse", cls |-> "RiskMV"],
       [stmt |-> "generate", cls |-> "PnLEod"],
       [stmt |-> "save_to_clickhouse", cls |-> "PnLEod"],
       [stmt |-> "print_done", cls |-> ""] >>

\* Variant of Statement: the books are written only after the counterparties
\* are generated.
Statement_late_save(at) ==
    IF at = 10 THEN Main[11] ELSE IF at = 11 THEN Main[10] ELSE Main[at]

\* The statement the entry point executes at position `at`.
Statement(at) == Main[at]

\* The num_records arguments of the entry point.
BooksCount == 10

CounterpartiesCount == 10

InstrumentsCount == 10

TradesCount == 100

\* The default of num_risks_per_trade, which the entry point does not pass.
DefaultRisksPerTrade == 1

\* Variant of AfterCall: the exception is caught and the run goes on with the
\* next statement.
AfterCall_swallow(at, raised) ==
    [pc |-> at + 1, status |-> "running", error |-> None]

\* Where the run stands after a call made by statement `at`: no statement of the
\* entry point is inside a try block, so an exception ends the run.
AfterCall(at, raised) ==
    IF raised = None
    THEN [pc |-> at + 1, status |-> "running", error |-> None]
    ELSE [pc |-> at, status |-> "aborted", error |-> raised]

\* The outcomes of the random calls of one run, as a function of the state s of
\* the random source: distinct numbers from fake.unique, values in turn from
\* the pools, positions spread over the lists.
InstrumentTypes == <<"BOND", "EQUITY", "FUTURE", "OPTION", "SWAP">>

EntryBookDraws(s, n) == [name |-> [k \in 1..n |-> 100000 + s + k]]

EntryCounterpartyDraws(s, n) ==
    [name |-> [k \in 1..n |-> CompanyNames[((s + k) % Len(CompanyNames)) + 1]]]

EntryInstrumentDraws(s, n) ==
    [id |-> [k \in 1..n |-> 10000000 + s + k],
     company |-> [k \in 1..n |-> CompanyNames[((s + k) % Len(CompanyNames)) + 1]],
     type |-> [k \in 1..n |-> InstrumentTypes[((s + k) % Len(InstrumentTypes)) + 1]]]

EntryTradeDraws(s, n, nb, nc, ni) ==
    [id |-> [k \in 1..n |-> s + k],
     tradeId |-> [k \in 1..n |-> 10000000 + ((s + k * k) % 50)],
     book |-> [k \in 1..n |-> IF nb = 0 THEN 0 ELSE ((s + k) % nb) + 1],
     counterparty |-> [k \in 1..n |-> IF nc = 0 THEN 0 ELSE ((s + 3 * k) % nc) + 1],
     instrument |-> [k \in 1..n |-> IF ni = 0 THEN 0 ELSE ((s + 7 * k) % ni) + 1]]

\* The distinct values of a list, in the order of their first occurrence: one of
\* the orders Series.unique() may return.
DistinctInOrder(list) ==
    LET firsts == {k \in 1..Len(list) : \A j \in 1..(k - 1) : list[j] # list[k]}
        Rank(k) == Cardinality({j \in firsts : j < k})
    IN  [i \in 1..Cardinality(firsts) |->
            list[CHOOSE k \in firsts : Rank(k) = i - 1]]

\* The store as a run may find it: no table, or every table left by an earlier
\* run, with a row in it.
StaleStore ==
    [q \in QualifiedNames |->
        LET cls == CHOOSE c \in Entities : QualifiedName(DefaultDatabase,
                                                          DefaultTableName(c)) = q
        IN  [exists |-> TRUE, columns |-> FieldDefinitions(cls),
             engine |-> "ReplacingMergeTree",
             version_column |-> EngineVersionColumn(cls),
             order_by |-> DefaultOrderBy(cls), rows |-> to_arrow(ProvBatch)]]

Init ==
    /\ store \in {EmptyStore, StaleStore}
    /\ last = NoCall
    /\ pc = 1
    /\ status = "running"
    /\ error = None
    /\ trace = <<>>
    /\ seed \in 0..MaxSeed
    /\ books_df = Unset
    /\ counterparty_df = Unset
    /\ instrument_df = Unset
    /\ trades_df = Unset
    /\ risk_df = Unset
    /\ risk_mv = Unset
    /\ pnl_eod = Unset

At(stmt) == status = "running" /\ pc \in 1..Len(Main) /\ Statement(pc).stmt = stmt

AtGenerate(cls) == At("generate") /\ Statement(pc).cls = cls

\* The entries a call adds to the trace: its commands and inserts, in order.
Events(issued) ==
    [k \in 1..Len(issued) |->
        IF issued[k].verb = "INSERT"
        THEN [ev |-> "insert", verb |-> "INSERT", target |-> issued[k].target,
              n |-> Len(issued[k].rows)]
        ELSE [ev |-> "command", verb |-> issued[k].verb, target |-> issued[k].target,
              n |-> 0]]

Generated(cls, df) ==
    <<[ev |-> "generate", verb |-> "", target |-> QualifiedName(DefaultDatabase,
                                                                 DefaultTableName(cls)),
       n |-> Len(df)]>>

Goto(next) ==
    /\ pc' = next.pc
    /\ status' = next.status
    /\ error' = next.error

\* client = get_client(host='localhost', port=8123, ...)
MainGetClient ==
    /\ At("get_client")
    /\ \E outcome \in Outcomes :
          LET raised == IF outcome = "ok" THEN None ELSE outcome IN
          /\ last' = [op |-> "get_client", cls |-> "", target |-> "",
                      drop_existing |-> FALSE, before |-> NoTable,
                      answers |-> <<outcome>>, issued |-> <<>>, raised |-> raised]
          /\ Goto(AfterCall(pc, raised))
    /\ UNCHANGED <<store, trace, seed, batches>>

\* <cls>.create_clickhouse_table(client, drop_existing=True)
MainCreateTable ==
    /\ At("create_clickhouse_table")
    /\ \E outcomes \in OutcomePlans :
          LET cls == Statement(pc).cls
              target == QualifiedName(DefaultDatabase, DefaultTableName(cls))
              r == create_clickhouse_table(cls, store, DefaultTableName(cls),
                                           DefaultDatabase, TRUE, DefaultOrderBy(cls),
                                           outcomes)
          IN  /\ store' = r.store
              /\ last' = [op |-> "create_clickhouse_table", cls |-> cls,
                          target |-> target, drop_existing |-> TRUE,
                          before |-> store[target], answers |-> outcomes,
                          issued |-> r.issued, raised |-> r.raised]
              /\ trace' = trace \o Events(r.issued)
              /\ Goto(AfterCall(pc, r.raised))
    /\ UNCHANGED <<seed, batches>>

\* books_df = HmsBook.generate_random_books_df(10)
MainGenerateBooks ==
    /\ AtGenerate("HmsBook")
    /\ books_df' = generate_random_books_df(BooksCount,
                                            EntryBookDraws(seed, BooksCount))
    /\ last' = GenCall("HmsBook.generate_random_books_df", BooksCount, None)
    /\ trace' = trace \o Generated("HmsBook", books_df')
    /\ Goto(AfterCall(pc, None))
    /\ UNCHANGED <<store, seed, counterparty_df, instrument_df, trades_df, risk_df,
                   risk_mv, pnl_eod>>

\* counterparty_df = Counterparty.generate_random_counterparties_df(10)
MainGenerateCounterparties ==
    /\ AtGenerate("Counterparty")
    /\ counterparty_df' = generate_random_counterparties_df(CounterpartiesCount,
                              EntryCounterpartyDraws(seed, CounterpartiesCount))
    /\ last' = GenCall("Counterparty.generate_random_counterparties_df",
                       CounterpartiesCount, None)
    /\ trace' = trace \o Generated("Counterparty", counterparty_df')
    /\ Goto(AfterCall(pc, None))
    /\ UNCHANGED <<store, seed, books_df, instrument_df, trades_df, risk_df, risk_mv,
                   pnl_eod>>

\* instrument_df = Instrument.generate_random_instruments_df(10)
MainGenerateInstruments ==
    /\ AtGenerate("Instrument")
    /\ instrument_df' = generate_random_instruments_df(InstrumentsCount,
                            EntryInstrumentDraws(seed, InstrumentsCount))
    /\ last' = GenCall("Instrument.generate_random_instruments_df", InstrumentsCount,
                       None)
    /\ trace' = trace \o Generated("Instrument", instrument_df')
    /\ Goto(AfterCall(pc, None))
    /\ UNCHANGED <<store, seed, books_df, counterparty_df, trades_df, risk_df, risk_mv,
                   pnl_eod>>

\* trades_df = Trade.generate_random_trades_df(100, counterparty_df, instrument_df,
\*                                             books_df)
MainGenerateTrades ==
    /\ AtGenerate("Trade")
    /\ LET r == generate_random_trades_df(TradesCount, counterparty_df, instrument_df,
                    books_df,
                    EntryTradeDraws(seed, TradesCount, Len(books_df),
                                    Len(counterparty_df), Len(instrument_df)))
       IN  /\ trades_df' = IF r.raised = None THEN r.df ELSE trades_df
           /\ last' = GenCall("Trade.generate_random_trades_df", TradesCount, r.raised)
           /\ trace' = IF r.raised = None THEN trace \o Generated("Trade", r.df)
                       ELSE trace
           /\ Goto(AfterCall(pc, r.raised))
    /\ UNCHANGED <<store, seed, books_df, counterparty_df, instrument_df, risk_df,
                   risk_mv, pnl_eod>>

\* risk_mv = RiskMV.generate_random_risks_from_trades_df(trades_df)
MainGenerateRiskMV ==
    /\ AtGenerate("RiskMV")
    /\ LET r == generate_random_risks_mv_from_trades_df(trades_df, DefaultRisksPerTrade,
                    UuidDraws(Len(trades_df) * DefaultRisksPerTrade))
       IN  /\ risk_mv' = IF r.raised = None THEN r.df ELSE risk_mv
           /\ last' = GenCall("RiskMV.generate_random_risks_from_trades_df",
                              DefaultRisksPerTrade, r.raised)
           /\ trace' = IF r.raised = None THEN trace \o Generated("RiskMV", r.df)
                       ELSE trace
           /\ Goto(AfterCall(pc, r.raised))
    /\ UNCHANGED <<store, seed, books_df, counterparty_df, instrument_df, trades_df,
                   risk_df, pnl_eod>>

\* pnl_eod = PnLEod.generate_random_pnl_eod_df(trades_df)
MainGeneratePnlEod ==
    /\ AtGenerate("PnLEod")
    /\ LET unique_books == DistinctInOrder(ToList(trades_df, "hmsBook")) IN
       pnl_eod' = generate_random_pnl_eod_df(trades_df, unique_books,
                                             UuidDraws(Len(unique_books)))
    /\ last' = GenCall("PnLEod.generate_random_pnl_eod_df", 0, None)
    /\ trace' = trace \o Generated("PnLEod", pnl_eod')
    /\ Goto(AfterCall(pc, None))
    /\ UNCHANGED <<store, seed, books_df, counterparty_df, instrument_df, trades_df,
                   risk_df, risk_mv>>

\* The local that the entry point passes to <cls>.save_to_clickhouse.
LocalBatch(cls) ==
    CASE cls = "HmsBook" -> books_df
      [] cls = "Counterparty" -> counterparty_df
      [] cls = "Instrument" -> instrument_df
      [] cls = "Trade" -> trades_df
      [] cls = "RiskMV" -> risk_mv
      [] cls = "PnLEod" -> pnl_eod
      [] cls = "Risk" -> risk_df

\* <cls>.save_to_clickhouse(<batch>, client)
MainSave ==
    /\ At("save_to_clickhouse")
    /\ \E outcome \in Outcomes :
          LET cls == Statement(pc).cls
              target == QualifiedName(DefaultDatabase, DefaultTableName(cls))
              r == save_to_clickhouse(cls, LocalBatch(cls), store,
                                      DefaultTableName(cls), DefaultDatabase, outcome)
          IN  /\ store' = r.store
              /\ last' = [op |-> "save_to_clickhouse", cls |-> cls, target |-> target,
                          drop_existing |-> FALSE, before |-> store[target],
                          answers |-> <<outcome>>, issued |-> r.issued,
                          raised |-> r.raised]
              /\ trace' = trace \o Events(r.issued)
              /\ Goto(AfterCall(pc, r.raised))
    /\ UNCHANGED <<seed, batches>>

\* print("Done")
MainPrintDone ==
    /\ At("print_done")
    /\ pc' = pc + 1
    /\ status' = "done"
    /\ UNCHANGED <<store, last, error, trace, seed, batches>>

Next ==
    \/ MainGetClient
    \/ MainCreateTable
    \/ MainGenerateBooks
    \/ MainGenerateCounterparties
    \/ MainGenerateInstruments
    \/ MainGenerateTrades
    \/ MainGenerateRiskMV
    \/ MainGeneratePnlEod
    \/ MainSave
    \/ MainPrintDone

Spec == Init /\ [][Next]_vars

-----------------------------------------------------------------------------
(* Claims on the entry point, checked under Spec.                          *)

TableOf(cls) == QualifiedName(DefaultDatabase, DefaultTableName(cls))

\* The place of a batch in the order of generation: reference batches first,
\* then the trades, then the batches derived from the trades.
Stage(target) ==
    CASE target = TableOf("HmsBook") -> 1
      [] target = TableOf("Counterparty") -> 2
      [] target = TableOf("Instrument") -> 3
      [] target = TableOf("Trade") -> 4
      [] OTHER -> 5

GeneratedBefore(j, cls) ==
    \E i \in 1..(j - 1) : trace[i].ev = "generate" /\ trace[i].target = TableOf(cls)

\* C4: in every run of the entry point all the tables are provisioned before
\* any batch is generated or written; the batches are generated in the order
\* books, counterparties, instruments, trades, batches derived from the trades;
\* a batch is generated only after every batch it consumes; and each batch is
\* written right after its generation, before the next batch is generated.
C4_EntryPointOrder ==
    /\ \A j \in 1..Len(trace) :
          trace[j].ev # "command" =>
             /\ \A i \in (j + 1)..Len(trace) : trace[i].ev # "command"
             /\ \A cls \in Entities :
                   \E i \in 1..(j - 1) : /\ trace[i].ev = "command"
                                         /\ trace[i].verb = "CREATE TABLE IF NOT EXISTS"
                                         /\ trace[i].target = TableOf(cls)
    /\ \A i, j \in 1..Len(trace) :
          (i < j /\ trace[i].ev = "generate" /\ trace[j].ev = "generate") =>
             /\ Stage(trace[i].target) <= Stage(trace[j].target)
             /\ trace[i].target # trace[j].target
    /\ \A j \in 1..Len(trace) :
          trace[j].ev = "generate" =>
             /\ trace[j].target = TableOf("Trade") =>
                   /\ GeneratedBefore(j, "HmsBook")
                   /\ GeneratedBefore(j, "Counterparty")
                   /\ GeneratedBefore(j, "Instrument")
             /\ Stage(trace[j].target) = 5 => GeneratedBefore(j, "Trade")
             /\ j < Len(trace) => /\ trace[j + 1].ev = "insert"
                                  /\ trace[j + 1].target = trace[j].target
                                  /\ trace[j + 1].n = trace[j].n
    /\ \A j \in 1..Len(trace) :
          trace[j].ev = "insert" => /\ j > 1
                                    /\ trace[j - 1].ev = "generate"
                                    /\ trace[j - 1].target = trace[j].target

\* A run that has provisioned, generated and written everything it does.
C4_Witness ==
    /\ status = "done"
    /\ Cardinality({j \in 1..Len(trace) : trace[j].ev = "command"}) = 14
    /\ Cardinality({j \in 1..Len(trace) : trace[j].ev = "generate"}) = 6
    /\ Cardinality({j \in 1..Len(trace) : trace[j].ev = "insert"}) = 6

\* C5 as stated: a run in which no call fails ends with every provisioned
\* table created and populated by a batch write, and with one risk record per
\* generated trade written.
C5_Original_AllTablesPopulated ==
    status = "done" =>
       /\ \A cls \in Entities :
             /\ store[TableOf(cls)].exists
             /\ store[TableOf(cls)].rows # <<>>
             /\ \E j \in 1..Len(trace) : /\ trace[j].ev = "insert"
                                         /\ trace[j].target = TableOf(cls)
       /\ Len(store[TableOf("Risk")].rows) = Len(trades_df)

\* The store behind the call of the step, as the failed call leaves it: only
\* the commands of the call that the store accepted have acted on its table.
LeftInPlace ==
    /\ \A q \in QualifiedNames \ {last'.target} : store'[q] = store[q]
    /\ last'.target \in QualifiedNames =>
          IF last'.op = "create_clickhouse_table" /\ Len(last'.issued) = 2
          THEN ~store'[last'.target].exists
          ELSE store'[last'.target] = store[last'.target]

\* C6: when a store call of the entry point fails, the run ends there with the
\* error of the store: what the earlier calls did to the store stays, the
\* failing call is the last one issued, and nothing is issued afterwards.
C6_FailureEndsRun ==
    [][ /\ last'.raised # None =>
              /\ status' = "aborted"
              /\ error' = last'.raised
              /\ pc' = pc
              /\ LeftInPlace
              /\ Len(trace') = Len(trace) + Len(last'.issued)
              /\ \A k \in 1..Len(trace) : trace'[k] = trace[k]
        /\ status = "aborted" => UNCHANGED vars ]_vars

\* A run that failed while writing the trades, after the reference batches
\* were written.
C6_Witness ==
    /\ status = "aborted"
    /\ error \in StoreErrors
    /\ last.op = "save_to_clickhouse"
    /\ last.cls = "Trade"
    /\ Len(store[TableOf("HmsBook")].rows) = BooksCount
    /\ Len(store[TableOf("Instrument")].rows) = InstrumentsCount
    /\ store[TableOf("Trade")].rows = <<>>

-----------------------------------------------------------------------------
(* The frame a generator returns: its columns.                             *)

\* The keys of the data dict of Trade.generate_random_trades_df, in the order of the dict.
TradeDataKeys ==
    << "asOfDate", "jobId", "snapId", "id", "version", "tradeId", "status", "pts",
       "hmsBook", "productType", "productSubType", "tradeDt", "startDt",
       "maturityDt", "maturityIsOpen", "executionDt", "counterParty",
       "treatsCode", "portfolio", "traderName", "projectName", "qmlError",
       "model", "side", "haircut", "collatCurrency", "settlementCurrency",
       "collatId", "collatDesc", "collatNotional", "collatType", "fundingLegType",
       "fundingLegNotional", "fundingLegCurrency", "fundingLegMargin",
       "fundingLegFixingLabel", "iaAmount", "iaCcy", "pxInception",
       "pxInceptionClean", "pxFactorInception", "sideFactor", "fxPair",
       "fxPairFunding" >>

\* The keys of the data dict of PnLEod.generate_random_pnl_eod_df, in the order of the dict.
PnLEodDataKeys ==
    << "id", "asOfDate", "updatedAt", "bu", "sbu", "portfolio", "book", "YTD",
       "MTD", "DTD", "AOP", "PPNL", "calculatedAt" >>

\* The keys of the data dict of RiskMV.generate_random_risks_from_trades_df, in the order of the dict.
RiskMVDataKeys ==
    << "id", "asOfDate", "updatedAt", "bu", "sbu", "portfolio", "book", "tradeId",
       "ccy", "tradeCcy", "instrument", "tradeStatus", "version", "cashOut",
       "projectedCashOut", "realisedCashOut", "notional", "vcProduct",
       "vcProductGroup", "counterparty", "obligor", "tradeDate", "startDate",
       "maturityDate", "underlyingCcy", "underlyingAmount", "calculatedAt" >>

\* The keys of the data dict of Risk.generate_random_risks_from_trades_df, in the order of the dict.
RiskDataKeys ==
    << "jobId", "asOfDate", "snapId", "id", "tradeId", "counterParty", "collatId",
       "collatDesc", "collatConcentration", "collatName", "collatTicker",
       "collatIssuer", "outstandingAmt", "dtm", "age", "tenor", "fxSpot",
       "fxSpotFunding", "fxSpotEOD", "fundingAmount", "collateralAmount",
       "cashOut", "accrualDaily", "accrualProjected", "accrualRealised", "pxEOD",
       "pxLast", "realizedMarginCall", "expectedMarginCall", "financingExposure",
       "calculatedAt", "updatedAt" >>

\* The keys of the data dict of Counterparty.generate_random_counterparties_df, in the order of the dict.
CounterpartyDataKeys ==
    << "name", "shortName", "type", "region", "country", "sector", "industry",
       "rating", "ratingAgency", "lei", "status", "updatedAt" >>

\* The keys of the data dict of Instrument.generate_random_instruments_df, in the order of the dict.
InstrumentDataKeys ==
    << "id", "type", "name", "description", "status", "updatedAt" >>

\* The keys of the data dict of HmsBook.generate_random_books_df, in the order of the dict.
HmsBookDataKeys ==
    << "name", "desk", "updatedAt" >>

DataKeys(cls) ==
    CASE cls = "Trade" -> TradeDataKeys
      [] cls = "PnLEod" -> PnLEodDataKeys
      [] cls = "RiskMV" -> RiskMVDataKeys
      [] cls = "Risk" -> RiskDataKeys
      [] cls = "Counterparty" -> CounterpartyDataKeys
      [] cls = "Instrument" -> InstrumentDataKeys
      [] cls = "HmsBook" -> HmsBookDataKeys

\* schema = {field_name: get_polars_type(field.annotation)
\*           for field_name, field in cls.model_fields.items()}
Schema(cls) ==
    [k \in 1..Len(model_fields(cls)) |->
        <<model_fields(cls)[k][1], get_polars_type(model_fields(cls)[k][2])>>]

\* Variant of DataFrameColumns: the frame keeps the order of the data dict.
DataFrameColumns_data_order(data_keys, schema) ==
    [raised |-> None, columns |-> data_keys]

\* The column names of pl.DataFrame(data, schema=schema): the names of the
\* schema, in the order of the schema, each column taken from the data by its
\* name; a data key that the schema does not name is an error.
DataFrameColumns(data_keys, schema) ==
    IF \A i \in 1..Len(data_keys) : \E k \in 1..Len(schema) : schema[k][1] = data_keys[i]
    THEN [raised |-> None, columns |-> [k \in 1..Len(schema) |-> schema[k][1]]]
    ELSE [raised |-> "ValueError", columns |-> <<>>]

-----------------------------------------------------------------------------
(* Batch specification: one call of one generator, with any outcome of the  *)
(* random source; the dependent generators are called on given batches.    *)

\* Values of fake.unique.random_number(digits=6) and (digits=8): one more than
\* a batch can need.
BookNumbers == 100001..(100001 + MaxRecords)

InstrumentNumbers == 10000001..(10000001 + MaxRecords)

CompanyNameSet == {CompanyNames[k] : k \in 1..Len(CompanyNames)}

\* A trades batch as Trade.generate_random_trades_df returns it from the
\* reference batches of n rows.
RefTrades(n) ==
    generate_random_trades_df(n, RefCounterparties(n), RefInstruments(n), RefBooks(n),
        [id |-> [k \in 1..n |-> k],
         tradeId |-> [k \in 1..n |-> 10000001],
         book |-> [k \in 1..n |-> k],
         counterparty |-> [k \in 1..n |-> k],
         instrument |-> [k \in 1..n |-> k]]).df

\* A call of the generator of cls, and the columns of the frame it returns.
BatchCall(op, cls, num, raised) ==
    LET frame == DataFrameColumns(DataKeys(cls), Schema(cls)) IN
    [op |-> op, cls |-> cls, num |-> num,
     raised |-> IF raised # None THEN raised ELSE frame.raised,
     columns |-> IF raised # None THEN <<>> ELSE frame.columns]

BatchInit ==
    /\ store = EmptyStore
    /\ last = NoCall
    /\ pc = 0
    /\ status = "idle"
    /\ error = None
    /\ trace = <<>>
    /\ seed = 0
    /\ books_df = RefBooks(2)
    /\ counterparty_df = RefCounterparties(2)
    /\ instrument_df = RefInstruments(2)
    /\ trades_df = RefTrades(2)
    /\ risk_df = Unset
    /\ risk_mv = Unset
    /\ pnl_eod = Unset

NoCallYet == last.op = "none"

BatchGenerateBooks ==
    /\ NoCallYet
    /\ \E num_records \in 0..MaxRecords :
       \E name \in UniqueSeqs(BookNumbers, num_records) :
          /\ books_df' = generate_random_books_df(num_records, [name |-> name])
          /\ last' = BatchCall("HmsBook.generate_random_books_df", "HmsBook",
                               num_records, None)
    /\ UNCHANGED <<store, entry, counterparty_df, instrument_df, trades_df, risk_df,
                   risk_mv, pnl_eod>>

BatchGenerateCounterparties ==
    /\ NoCallYet
    /\ \E num_records \in 0..MaxRecords :
       \E name \in [1..num_records -> CompanyNameSet] :
          /\ counterparty_df' = generate_random_counterparties_df(num_records,
                                                                  [name |-> name])
          /\ last' = BatchCall("Counterparty.generate_random_counterparties_df",
                               "Counterparty", num_records, None)
    /\ UNCHANGED <<store, entry, books_df, instrument_df, trades_df, risk_df, risk_mv,
                   pnl_eod>>

BatchGenerateInstruments ==
    /\ NoCallYet
    /\ \E num_records \in 0..MaxRecords :
       \E id \in UniqueSeqs(InstrumentNumbers, num_records),
          company \in [1..num_records -> CompanyNameSet] :
          /\ instrument_df' = generate_random_instruments_df(num_records,
                                  [id |-> id, company |-> company,
                                   type |-> [k \in 1..num_records |-> "BOND"]])
          /\ last' = BatchCall("Instrument.generate_random_instruments_df",
                               "Instrument", num_records, None)
    /\ UNCHANGED <<store, entry, books_df, counterparty_df, trades_df, risk_df, risk_mv,
                   pnl_eod>>

BatchGenerateTrades ==
    /\ NoCallYet
    /\ \E num_records \in 0..MaxRecords :
       \E id \in UniqueSeqs(TradeIdNumbers, num_records),
          tradeId \in [1..num_records -> TradeIdStrings],
          book \in [1..num_records -> Positions(Len(books_df))],
          counterparty \in [1..num_records -> Positions(Len(counterparty_df))],
          instrument \in [1..num_records -> Positions(Len(instrument_df))] :
            LET r == generate_random_trades_df(num_records, counterparty_df,
                        instrument_df, books_df,
                        [id |-> id, tradeId |-> tradeId, book |-> book,
                         counterparty |-> counterparty, instrument |-> instrument])
            IN  /\ trades_df' = IF r.raised = None THEN r.df ELSE trades_df
                /\ last' = BatchCall("Trade.generate_random_trades_df", "Trade",
                                     num_records, r.raised)
    /\ UNCHANGED <<store, entry, books_df, counterparty_df, instrument_df, risk_df,
                   risk_mv, pnl_eod>>

BatchGenerateRisks ==
    /\ NoCallYet
    /\ \E num_risks_per_trade \in 0..MaxRisksPerTrade :
            LET r == generate_random_risks_from_trades_df(trades_df, num_risks_per_trade)
            IN  /\ risk_df' = IF r.raised = None THEN r.df ELSE risk_df
                /\ last' = BatchCall("Risk.generate_random_risks_from_trades_df", "Risk",
                                     num_risks_per_trade, r.raised)
    /\ UNCHANGED <<store, entry, books_df, counterparty_df, instrument_df, trades_df,
                   risk_mv, pnl_eod>>

BatchGenerateRiskMV ==
    /\ NoCallYet
    /\ \E num_risks_per_trade \in 0..MaxRisksPerTrade :
            LET r == generate_random_risks_mv_from_trades_df(trades_df,
                        num_risks_per_trade,
                        UuidDraws(Len(trades_df) * num_risks_per_trade))
            IN  /\ risk_mv' = IF r.raised = None THEN r.df ELSE risk_mv
                /\ last' = BatchCall("RiskMV.generate_random_risks_from_trades_df",
                                     "RiskMV", num_risks_per_trade, r.raised)
    /\ UNCHANGED <<store, entry, books_df, counterparty_df, instrument_df, trades_df,
                   risk_df, pnl_eod>>

BatchGeneratePnlEod ==
    /\ NoCallYet
    /\ \E unique_books \in UniqueOrders(trades_df, "hmsBook") :
            /\ pnl_eod' = generate_random_pnl_eod_df(trades_df, unique_books,
                                                     UuidDraws(Len(unique_books)))
            /\ last' = BatchCall("PnLEod.generate_random_pnl_eod_df", "PnLEod",
                                 Len(unique_books), None)
    /\ UNCHANGED <<store, entry, books_df, counterparty_df, instrument_df, trades_df,
                   risk_df, risk_mv>>

BatchNext ==
    \/ BatchGenerateBooks
    \/ BatchGenerateCounterparties
    \/ BatchGenerateInstruments
    \/ BatchGenerateTrades
    \/ BatchGenerateRisks
    \/ BatchGenerateRiskMV
    \/ BatchGeneratePnlEod

BatchSpec == BatchInit /\ [][BatchNext]_vars

\* The batch the last call returned.
Returned == last.op # "none" /\ last.raised = None

ReturnedBatch == LocalBatch(last.cls)

\* The natural key of a reference entity.
NaturalKey(cls) ==
    CASE cls = "Counterparty" -> "name"
      [] cls = "Instrument" -> "id"
      [] cls = "HmsBook" -> "name"

\* C11 as stated: in every batch a reference generator returns (counterparties,
\* instruments, books) the natural-key column (name, id, name) holds pairwise
\* distinct values.
C11_Original_NaturalKeysDistinct ==
    (Returned /\ last.cls \in {"Counterparty", "Instrument", "HmsBook"}) =>
        \A i, j \in Rows(ReturnedBatch) :
            i # j => ReturnedBatch[i][NaturalKey(last.cls)]
                        # ReturnedBatch[j][NaturalKey(last.cls)]

-----------------------------------------------------------------------------
(* Append specification: trades_f is provisioned; batches of trades are     *)
(* generated, each by its own call, and written to it one after the other. *)

\* The store after Trade.create_clickhouse_table(client) on a store without
\* tables.
TradesProvisioned ==
    create_clickhouse_table("Trade", EmptyStore, DefaultTableName("Trade"),
                            DefaultDatabase, TRUE, DefaultOrderBy("Trade"),
                            <<"ok", "ok">>).store

AppendInit ==
    /\ store = TradesProvisioned
    /\ last = NoCall
    /\ pc = 0
    /\ status = "idle"
    /\ error = None
    /\ trace = <<>>
    /\ seed = 0
    /\ books_df = RefBooks(1)
    /\ counterparty_df = RefCounterparties(1)
    /\ instrument_df = RefInstruments(1)
    /\ trades_df = Unset
    /\ risk_df = Unset
    /\ risk_mv = Unset
    /\ pnl_eod = Unset

\* trades_df = Trade.generate_random_trades_df(num_records, ...): the call makes
\* its own Faker(), so fake.unique starts without any number seen.
AppendGenerateTrades ==
    /\ status = "idle"
    /\ \E num_records \in 1..MaxRecords :
       \E id \in UniqueSeqs(TradeIdNumbers, num_records),
          tradeId \in [1..num_records -> TradeIdStrings] :
            LET r == generate_random_trades_df(num_records, counterparty_df,
                        instrument_df, books_df,
                        [id |-> id, tradeId |-> tradeId,
                         book |-> [k \in 1..num_records |-> 1],
                         counterparty |-> [k \in 1..num_records |-> 1],
                         instrument |-> [k \in 1..num_records |-> 1]])
            IN  /\ trades_df' = r.df
                /\ last' = BatchCall("Trade.generate_random_trades_df", "Trade",
                                     num_records, r.raised)
    /\ status' = "generated"
    /\ UNCHANGED <<store, pc, error, trace, seed, books_df, counterparty_df,
                   instrument_df, risk_df, risk_mv, pnl_eod>>

\* Trade.save_to_clickhouse(trades_df, client)
AppendSaveTrades ==
    /\ status = "generated"
    /\ \E outcome \in Outcomes :
          LET target == TableOf("Trade")
              r == save_to_clickhouse("Trade", trades_df, store,
                                      DefaultTableName("Trade"), DefaultDatabase,
                                      outcome)
          IN  /\ Len(store[target].rows) + Len(trades_df) <= MaxTableRows
              /\ store' = r.store
              /\ last' = [op |-> "save_to_clickhouse", cls |-> "Trade",
                          target |-> target, drop_existing |-> FALSE,
                          before |-> store[target], answers |-> <<outcome>>,
                          issued |-> r.issued, raised |-> r.raised]
    /\ status' = "idle"
    /\ UNCHANGED <<pc, error, trace, seed, batches>>

AppendNext == AppendGenerateTrades \/ AppendSaveTrades

AppendSpec == AppendInit /\ [][AppendNext]_vars

\* C12 as stated: no two rows written to trades_f, from one batch or from
\* several, share the same (id, version).
C12_Original_TradeKeyUniqueInStore ==
    LET rows == store[TableOf("Trade")].rows IN
    \A i, j \in 1..Len(rows) :
        i # j => <<rows[i].id, rows[i].version>> # <<rows[j].id, rows[j].version>>

-----------------------------------------------------------------------------
(* The type registry of trades.py, and what a resolution writes besides its *)
(* result.                                                                 *)

trades_PYTHON_TO_CLICKHOUSE_TYPE_MAP ==
    [x \in ScalarTypes |->
        CASE x = "str" -> "String"
          [] x = "int" -> "Int64"
          [] x = "float" -> "Float64"
          [] x = "bool" -> "UInt8"
          [] x = "date" -> "Date"
          [] x = "datetime" -> "DateTime"
          [] x = "Decimal" -> "Decimal(38, 18)"]

trades_PYTHON_TO_POLARS_TYPE_MAP ==
    [x \in ScalarTypes |->
        CASE x = "str" -> "Utf8"
          [] x = "int" -> "Int64"
          [] x = "float" -> "Float64"
          [] x = "bool" -> "Boolean"
          [] x = "date" -> "Date"
          [] x = "datetime" -> "Datetime"
          [] x = "Decimal" -> "Decimal(38, 18)"]

trades_get_clickhouse_type(python_type) ==
    LET origin == get_origin(python_type) IN
    IF origin = "typing.Optional"
    THEN LET base_type == get_args0(python_type) IN
         IF base_type = "Decimal"
         THEN "Nullable(Decimal(38, 18))"
         ELSE "Nullable(" \o DictGet(trades_PYTHON_TO_CLICKHOUSE_TYPE_MAP, base_type,
                                     "String") \o ")"
    ELSE DictGet(trades_PYTHON_TO_CLICKHOUSE_TYPE_MAP, python_type, "String")

trades_get_polars_type(python_type) ==
    LET origin == get_origin(python_type) IN
    IF origin = "typing.Optional"
    THEN LET base_type == get_args0(python_type) IN
         IF base_type = "Decimal"
         THEN "Decimal(38, 18)"
         ELSE DictGet(trades_PYTHON_TO_POLARS_TYPE_MAP, base_type, "Utf8")
    ELSE DictGet(trades_PYTHON_TO_POLARS_TYPE_MAP, python_type, "Utf8")

\* What get_clickhouse_type of fake_financing.py prints: the base type, in the
\* branch of an Optional origin.  No other resolution function prints.
get_clickhouse_type_stdout(python_type) ==
    IF get_origin(python_type) = "typing.Optional"
    THEN <<get_args0(python_type)>>
    ELSE <<>>

\* The warnings a resolution emits: the four functions call neither
\* warnings.warn nor a logger.
ResolutionWarnings(module, function, python_type) == <<>>

Modules == {"fake_financing", "trades"}

ResolutionFunctions == {"get_clickhouse_type", "get_polars_type"}

\* One call of a resolution function: its result and what it wrote.
Resolve(module, function, python_type) ==
    [result |->
        CASE module = "fake_financing" /\ function = "get_clickhouse_type" ->
                get_clickhouse_type(python_type)
          [] module = "fake_financing" /\ function = "get_polars_type" ->
                get_polars_type(python_type)
          [] module = "trades" /\ function = "get_clickhouse_type" ->
                trades_get_clickhouse_type(python_type)
          [] module = "trades" /\ function = "get_polars_type" ->
                trades_get_polars_type(python_type),
     stdout |-> IF module = "fake_financing" /\ function = "get_clickhouse_type"
                THEN get_clickhouse_type_stdout(python_type) ELSE <<>>,
     warnings |-> ResolutionWarnings(module, function, python_type),
     raised |-> None]

-----------------------------------------------------------------------------
(* Type specification: the resolution functions of both modules are called *)
(* on the types the registry maps, on their Optional forms, on types it    *)
(* does not map, and on the annotations of the entities' fields.           *)

\* Types that are no key of any map.
UnmappedTypes == {"bytes", "list", "dict", "UUID"}

PythonTypes == ScalarTypes \cup OptionalTypes \cup UnmappedTypes

TypeCall(module, function, cls, field, python_type) ==
    LET r == Resolve(module, function, python_type) IN
    [op |-> function, module |-> module, cls |-> cls, field |-> field,
     python_type |-> python_type, result |-> r.result, stdout |-> r.stdout,
     warnings |-> r.warnings, raised |-> r.raised]

TypeInit ==
    /\ store = EmptyStore
    /\ last = NoCall
    /\ pc = 0
    /\ status = "idle"
    /\ error = None
    /\ trace = <<>>
    /\ seed = 0
    /\ books_df = Unset
    /\ counterparty_df = Unset
    /\ instrument_df = Unset
    /\ trades_df = Unset
    /\ risk_df = Unset
    /\ risk_mv = Unset
    /\ pnl_eod = Unset

\* get_clickhouse_type(python_type) or get_polars_type(python_type)
TypeResolve ==
    /\ \E module \in Modules, function \in ResolutionFunctions,
          python_type \in PythonTypes :
          last' = TypeCall(module, function, "", "", python_type)
    /\ UNCHANGED <<store, entry, batches>>

\* get_clickhouse_type(field.annotation) in create_clickhouse_table and
\* get_polars_type(field.annotation) in the generators, for one field of cls
TypeResolveField ==
    /\ \E cls \in Entities, function \in ResolutionFunctions :
       \E k \in 1..Len(model_fields(cls)) :
          last' = TypeCall("fake_financing", function, cls, model_fields(cls)[k][1],
                           model_fields(cls)[k][2])
    /\ UNCHANGED <<store, entry, batches>>

TypeNext == TypeResolve \/ TypeResolveField

TypeSpec == TypeInit /\ [][TypeNext]_vars

Resolved(function) == last.op = function

\* C13 as stated: for every scalar type T of the registry,
\* get_clickhouse_type(Optional[T]) is 'Nullable(' + get_clickhouse_type(T) + ')',
\* in fake_financing.py and in trades.py.
C13_Original_OptionalIsNullable ==
    (Resolved("get_clickhouse_type") /\ last.python_type \in OptionalTypes) =>
        last.result = "Nullable(" \o Resolve(last.module, "get_clickhouse_type",
                                             get_args0(last.python_type)).result \o ")"

-----------------------------------------------------------------------------
(* Claims on the schema of the tables and of the batches.                  *)

\* The store types of the scalar types, and their nullable forms.
BaseClickhouseTypes == {PYTHON_TO_CLICKHOUSE_TYPE_MAP[t] : t \in ScalarTypes}

NullableClickhouseTypes == {"Nullable(" \o c \o ")" : c \in BaseClickhouseTypes}

\* The CREATE statement of the run for the table of cls has been accepted.
CreatedInRun(cls) ==
    /\ store[TableOf(cls)].exists
    /\ \E j \in 1..Len(trace) : /\ trace[j].verb = "CREATE TABLE IF NOT EXISTS"
                                /\ trace[j].target = TableOf(cls)

\* The fields that Trade.generate_random_trades_df fills with None.
AbsentTradeFields == {"qmlError", "iaAmount", "pxFactorInception"}

\* C14: in every table the entry point creates, a field declared Optional has a
\* Nullable(...) column type and any other field a non-nullable one; and in the
\* generated trades batch, and in the rows written from it, a value generated
\* as None is a null (a cell without value), not an empty string or a zero.
C14_OptionalIsNullableAndNull ==
    /\ \A cls \in Entities :
          CreatedInRun(cls) =>
             LET columns == store[TableOf(cls)].columns IN
             /\ Len(columns) = Len(model_fields(cls))
             /\ \A k \in 1..Len(columns) :
                   IF model_fields(cls)[k][2] \in OptionalTypes
                   THEN columns[k][2] \in NullableClickhouseTypes
                   ELSE columns[k][2] \in BaseClickhouseTypes
    /\ trades_df # Unset =>
          \A k \in Rows(trades_df) : \A f \in AbsentTradeFields :
             /\ model_fields("Trade")[CHOOSE j \in 1..Len(TradeFields) :
                                         TradeFields[j][1] = f][2] \in OptionalTypes
             /\ IsNull(trades_df[k][f])
    /\ \A k \in 1..Len(store[TableOf("Trade")].rows) : \A f \in AbsentTradeFields :
          CreatedInRun("Trade") => IsNull(store[TableOf("Trade")].rows[k][f])

\* A complete run: the seven tables created, the trades generated and written.
C14_Witness ==
    /\ status = "done"
    /\ \A cls \in Entities : CreatedInRun(cls)
    /\ Len(trades_df) = TradesCount
    /\ Len(store[TableOf("Trade")].rows) = TradesCount
    /\ \E k \in Rows(trades_df) : IsNull(trades_df[k].iaAmount)

-----------------------------------------------------------------------------
(* Claims on the type registry, checked under TypeSpec.                    *)

\* C15 as stated: for every scalar type T of the registry,
\* get_polars_type(Optional[T]) is the columnar type get_polars_type(T).
C15_Original_PolarsOptionalIsBase ==
    (Resolved("get_polars_type") /\ last.python_type \in OptionalTypes) =>
        last.result = Resolve(last.module, "get_polars_type",
                              get_args0(last.python_type)).result

\* The map a resolution function of a module looks the type up in.
RegistryMap(module, function) ==
    CASE module = "fake_financing" /\ function = "get_clickhouse_type" ->
            PYTHON_TO_CLICKHOUSE_TYPE_MAP
      [] module = "fake_financing" /\ function = "get_polars_type" ->
            PYTHON_TO_POLARS_TYPE_MAP
      [] module = "trades" /\ function = "get_clickhouse_type" ->
            trades_PYTHON_TO_CLICKHOUSE_TYPE_MAP
      [] module = "trades" /\ function = "get_polars_type" ->
            trades_PYTHON_TO_POLARS_TYPE_MAP

\* The last call resolved a type that is no key of the map of its function.
ResolvedUnmapped ==
    /\ last.op \in ResolutionFunctions
    /\ last.python_type \notin DOMAIN RegistryMap(last.module, last.op)

\* C16: for a type that the registry does not map, get_clickhouse_type returns
\* 'String' and get_polars_type returns Utf8, in both modules, and neither
\* raises.
C16_UnmappedFallsBackToText ==
    ResolvedUnmapped =>
        /\ last.raised = None
        /\ last.op = "get_clickhouse_type" => last.result = "String"
        /\ last.op = "get_polars_type" => last.result = "Utf8"

\* A type outside the registry, resolved by each function.
C16_Witness ==
    /\ ResolvedUnmapped
    /\ last.python_type \in UnmappedTypes
    /\ last.result \in {"String", "Utf8"}

\* C17 as stated: whenever a resolution falls back to text because the type is
\* not mapped, a warning is emitted.
C17_Original_FallbackWarns ==
    ResolvedUnmapped => last.warnings # <<>>

-----------------------------------------------------------------------------
(* Claims on the generators' batches, checked under BatchSpec.             *)

Names(pairs) == [k \in 1..Len(pairs) |-> pairs[k][1]]

\* The CREATE statement cls.create_clickhouse_table(client) issues.
CreateStatement(cls) ==
    LET r == create_clickhouse_table(cls, EmptyStore, DefaultTableName(cls),
                                     DefaultDatabase, TRUE, DefaultOrderBy(cls),
                                     <<"ok", "ok">>)
    IN  r.issued[Len(r.issued)]

\* C18: for every entity, the column names of the CREATE statement are the
\* declared fields in declaration order, and the columns of the batch its
\* generator returns are the same names in the same order, whatever the order
\* of the keys of the generator's data.
C18_ColumnOrder ==
    Returned =>
        LET declared == Names(model_fields(last.cls)) IN
        /\ Names(CreateStatement(last.cls).columns) = declared
        /\ last.columns = declared
        /\ \A k \in Rows(ReturnedBatch) :
              \A f \in DOMAIN ReturnedBatch[k] :
                 \E j \in 1..Len(last.columns) : last.columns[j] = f

\* A trades batch, whose data dict is not filled in declaration order.
C18_Witness ==
    /\ Returned
    /\ last.cls = "Trade"
    /\ last.num >= 1
    /\ Len(trades_df) = last.num
    /\ DataKeys("Trade") # Names(model_fields("Trade"))
    /\ last.columns = Names(CreateStatement("Trade").columns)

\* The discriminant field of the dedup-merge engine of each entity.
Discriminant(cls) ==
    CASE cls = "Trade" -> "version"
      [] cls \in {"Risk", "RiskMV", "PnLEod"} -> "calculatedAt"
      [] cls \in {"Counterparty", "Instrument", "HmsBook"} -> "updatedAt"

Declared(cls, f) == \E k \in 1..Len(model_fields(cls)) : model_fields(cls)[k][1] = f

\* C19: every table the entry point creates uses the ReplacingMergeTree engine
\* with one discriminant, which is a declared field of the entity (version for
\* Trade, calculatedAt for Risk, RiskMV and PnLEod, updatedAt for Counterparty,
\* Instrument and HmsBook), and every field of its ordering key is a declared
\* field of the entity.
C19_EngineAndOrderingKey ==
    \A cls \in Entities :
        CreatedInRun(cls) =>
           LET table == store[TableOf(cls)] IN
           /\ table.engine = "ReplacingMergeTree"
           /\ table.version_column = Discriminant(cls)
           /\ Declared(cls, table.version_column)
           /\ table.order_by # <<>>
           /\ \A k \in 1..Len(table.order_by) : Declared(cls, table.order_by[k])

\* The run has just created the last of its seven tables.
C19_Witness ==
    /\ last.op = "create_clickhouse_table"
    /\ last.cls = "PnLEod"
    /\ last.raised = None
    /\ \A cls \in Entities : CreatedInRun(cls)
    /\ store[TableOf("PnLEod")].version_column = "calculatedAt"

\* The column of a batch, as a list of its cells.
Column(df, f) == [k \in 1..Len(df) |-> df[k][f]]

\* C20: a batch returned by the generator of counterparties, instruments, books
\* or trades called with num_records >= 0 has exactly num_records rows, its
\* columns are the declared fields, and every column has num_records cells.
C20_RowCount ==
    (Returned /\ last.cls \in {"Counterparty", "Instrument", "HmsBook", "Trade"}) =>
        /\ last.num >= 0
        /\ Len(ReturnedBatch) = last.num
        /\ last.columns = Names(model_fields(last.cls))
        /\ \A k \in Rows(ReturnedBatch) :
              DOMAIN ReturnedBatch[k] = DOMAIN ReturnedBatch[1]
        /\ \A f \in (IF ReturnedBatch = <<>> THEN {} ELSE DOMAIN ReturnedBatch[1]) :
              Len(Column(ReturnedBatch, f)) = last.num

\* A counterparties batch of the largest size asked for.
C20_Witness ==
    /\ Returned
    /\ last.cls = "Counterparty"
    /\ last.num = MaxRecords
    /\ Len(counterparty_df) = MaxRecords
    /\ Len(Column(counterparty_df, "name")) = MaxRecords

-----------------------------------------------------------------------------
(* Claims on batch writing, checked under Spec.                            *)

LastIsSave == last.op = "save_to_clickhouse"

\* C21: every save_to_clickhouse call issues exactly one store call, an insert
\* of the whole batch (all its rows, converted to Arrow) into
\* "<database>.<table_name>"; what the store raises on that insert is what the
\* call raises, and then the table is as it was; an accepted insert appends
\* the whole batch once.
C21_SingleInsert ==
    LastIsSave =>
        LET arrow == to_arrow(LocalBatch(last.cls)) IN
        /\ Len(last.issued) = 1
        /\ last.issued[1] = [verb |-> "INSERT",
                             target |-> QualifiedName(DefaultDatabase,
                                                      DefaultTableName(last.cls)),
                             rows |-> arrow]
        /\ last.target = last.issued[1].target
        /\ last.answers[1] # "ok" =>
              /\ last.raised = last.answers[1]
              /\ store[last.target] = last.before
        /\ last.raised = None =>
              store[last.target].rows = last.before.rows \o arrow

\* C21 witness: the store refused the insert of a batch of several rows, and
\* the call raised that error after the one insert.
C21_Witness ==
    /\ LastIsSave
    /\ Len(LocalBatch(last.cls)) > 1
    /\ last.answers[1] = "OperationalError"
    /\ last.raised = "OperationalError"
    /\ Len(last.issued) = 1

-----------------------------------------------------------------------------
(* create_views.py: the materialized view risk_f_mv over risk_f and its    *)
(* four reference tables.                                                  *)

\* "DROP TABLE IF EXISTS risk_f_mv": the name is not qualified, so it names the
\* table of the client's database, which get_clickhouse_client leaves at
\* "default".
drop_view_query ==
    [verb |-> "DROP TABLE IF EXISTS", target |-> QualifiedName(DefaultDatabase, "risk_f_mv")]

\* The SELECT list of create_view_query, in order: <<alias, column, output name>>.
ViewSelect ==
    <<<<"r", "asOfDate", "asOfDate">>, <<"r", "id", "id">>,
       <<"r", "jobId", "risk_jobId">>, <<"r", "snapId", "risk_snapId">>,
       <<"r", "tradeId", "risk_tradeId">>,
       <<"r", "counterParty", "counterParty">>,
       <<"r", "collatId", "collatId">>, <<"r", "collatDesc", "collatDesc">>,
       <<"r", "collatConcentration", "collatConcentration">>,
       <<"r", "collatName", "collatName">>,
       <<"r", "collatTicker", "collatTicker">>,
       <<"r", "collatIssuer", "collatIssuer">>,
       <<"r", "outstandingAmt", "outstandingAmt">>, <<"r", "dtm", "dtm">>,
       <<"r", "age", "age">>, <<"r", "tenor", "tenor">>,
       <<"r", "fxSpot", "fxSpot">>, <<"r", "fxSpotFunding", "fxSpotFunding">>,
       <<"r", "fxSpotEOD", "fxSpotEOD">>,
       <<"r", "fundingAmount", "fundingAmount">>,
       <<"r", "collateralAmount", "collateralAmount">>,
       <<"r", "cashOut", "cashOut">>, <<"r", "accrualDaily", "accrualDaily">>,
       <<"r", "accrualProjected", "accrualProjected">>,
       <<"r", "accrualRealised", "accrualRealised">>,
       <<"r", "pxEOD", "pxEOD">>, <<"r", "pxLast", "pxLast">>,
       <<"r", "realizedMarginCall", "realizedMarginCall">>,
       <<"r", "expectedMarginCall", "expectedMarginCall">>,
       <<"r", "financingExposure", "financingExposure">>,
       <<"r", "calculatedAt", "calculatedAt">>,
       <<"t", "jobId", "trade_jobId">>, <<"t", "snapId", "trade_snapId">>,
       <<"t", "version", "version">>, <<"t", "tradeId", "tradeId">>,
       <<"t", "status", "trade_status">>, <<"t", "pts", "pts">>,
       <<"t", "hmsBook", "hmsBook">>, <<"t", "productType", "productType">>,
       <<"t", "productSubType", "productSubType">>,
       <<"t", "tradeDt", "tradeDt">>, <<"t", "startDt", "startDt">>,
       <<"t", "maturityDt", "maturityDt">>,
       <<"t", "maturityIsOpen", "maturityIsOpen">>,
       <<"t", "executionDt", "executionDt">>,
       <<"t", "treatsCode", "treatsCode">>,
       <<"t", "traderName", "traderName">>,
       <<"t", "projectName", "projectName">>, <<"t", "qmlError", "qmlError">>,
       <<"t", "model", "model">>, <<"t", "side", "side">>,
       <<"t", "haircut", "haircut">>,
       <<"t", "collatCurrency", "collatCurrency">>,
       <<"t", "settlementCurrency", "settlementCurrency">>,
       <<"t", "collatType", "collatType">>,
       <<"t", "fundingLegType", "fundingLegType">>,
       <<"t", "fundingLegNotional", "fundingLegNotional">>,
       <<"t", "fundingLegCurrency", "fundingLegCurrency">>,
       <<"t", "fundingLegMargin", "fundingLegMargin">>,
       <<"t", "fundingLegFixingLabel", "fundingLegFixingLabel">>,
       <<"t", "iaAmount", "iaAmount">>, <<"t", "iaCcy", "iaCcy">>,
       <<"t", "pxInception", "pxInception">>,
       <<"t", "pxInceptionClean", "pxInceptionClean">>,
       <<"t", "pxFactorInception", "pxFactorInception">>,
       <<"t", "sideFactor", "sideFactor">>, <<"t", "fxPair", "fxPair">>,
       <<"t", "fxPairFunding", "fxPairFunding">>,
       <<"cp", "name", "counterparty_name">>,
       <<"cp", "shortName", "counterparty_shortName">>,
       <<"cp", "type", "counterparty_type">>,
       <<"cp", "region", "counterparty_region">>,
       <<"cp", "country", "counterparty_country">>,
       <<"cp", "sector", "counterparty_sector">>,
       <<"cp", "industry", "counterparty_industry">>,
       <<"cp", "rating", "counterparty_rating">>,
       <<"cp", "ratingAgency", "counterparty_ratingAgency">>,
       <<"cp", "lei", "counterparty_lei">>,
       <<"cp", "status", "counterparty_status">>,
       <<"cp", "updatedAt", "counterparty_updatedAt">>,
       <<"i", "type", "instrument_type">>, <<"i", "name", "instrument_name">>,
       <<"i", "description", "instrument_description">>,
       <<"i", "status", "instrument_status">>,
       <<"i", "updatedAt", "instrument_updatedAt">>,
       <<"h", "desk", "hmsbook_desk">>,
       <<"h", "updatedAt", "hmsbook_updatedAt">> >>

\* FROM risk_f AS r and the four LEFT JOINs, in order: the table joined, its
\* alias, and the ON condition left column = right column.
ViewFrom == [table |-> "risk_f", alias |-> "r"]

ViewJoins ==
    << [kind |-> "LEFT JOIN", table |-> "trades_f", alias |-> "t",
        on |-> << <<"r", "id">>, <<"t", "id">> >>],
       [kind |-> "LEFT JOIN", table |-> "counterparty_f", alias |-> "cp",
        on |-> << <<"r", "counterParty">>, <<"cp", "name">> >>],
       [kind |-> "LEFT JOIN", table |-> "instrument_f", alias |-> "i",
        on |-> << <<"r", "collatId">>, <<"i", "id">> >>],
       [kind |-> "LEFT JOIN", table |-> "hmsbook_f", alias |-> "h",
        on |-> << <<"t", "hmsBook">>, <<"h", "name">> >>] >>

\* Variant of AliasEntity: r is taken for the entity whose table has the name of
\* the view.
AliasEntity_view(alias) ==
    CASE alias = "r" -> "RiskMV"
      [] alias = "t" -> "Trade"
      [] alias = "cp" -> "Counterparty"
      [] alias = "i" -> "Instrument"
      [] alias = "h" -> "HmsBook"

\* The entity whose table an alias of the query names.
AliasEntity(alias) ==
    CASE alias = "r" -> "Risk"
      [] alias = "t" -> "Trade"
      [] alias = "cp" -> "Counterparty"
      [] alias = "i" -> "Instrument"
      [] alias = "h" -> "HmsBook"

\* CREATE MATERIALIZED VIEW risk_f_mv ENGINE = ReplacingMergeTree(calculatedAt)
\* PRIMARY KEY (r.asOfDate, r.id) ORDER BY (r.asOfDate, r.id) AS SELECT ...
create_view_query ==
    [verb |-> "CREATE MATERIALIZED VIEW",
     target |-> QualifiedName(DefaultDatabase, "risk_f_mv"),
     columns |-> [k \in 1..Len(ViewSelect) |-> <<ViewSelect[k][3], "">>],
     engine |-> "ReplacingMergeTree",
     version_column |-> "calculatedAt",
     order_by |-> << <<"r", "asOfDate">>, <<"r", "id">> >>,
     select |-> ViewSelect,
     from |-> ViewFrom,
     joins |-> ViewJoins]

\* Variant of create_risk_materialized_view: the error is printed and not
\* raised again.
create_risk_materialized_view_swallow(st, outcomes) ==
    LET dropped == ClientCommand(st, drop_view_query, outcomes[1])
        created == ClientCommand(dropped.store, create_view_query, outcomes[2])
    IN  IF dropped.raised # None
        THEN [store |-> dropped.store, issued |-> <<drop_view_query>>,
              stdout |-> <<"Error creating materialized view: " \o dropped.raised>>,
              raised |-> None]
        ELSE IF created.raised # None
        THEN [store |-> created.store,
              issued |-> <<drop_view_query, create_view_query>>,
              stdout |-> <<"Error creating materialized view: " \o created.raised>>,
              raised |-> None]
        ELSE [store |-> created.store,
              issued |-> <<drop_view_query, create_view_query>>,
              stdout |-> <<"Materialized view 'risk_f_mv' created successfully">>,
              raised |-> None]

\* create_risk_materialized_view(client); `outcomes` is what the store answers
\* to the first and to the second command.  The result is the store after the
\* call, the commands issued, the lines printed and the exception raised.
create_risk_materialized_view(st, outcomes) ==
    LET dropped == ClientCommand(st, drop_view_query, outcomes[1])
        created == ClientCommand(dropped.store, create_view_query, outcomes[2])
    IN  IF dropped.raised # None
        THEN [store |-> dropped.store, issued |-> <<drop_view_query>>,
              stdout |-> <<"Error creating materialized view: " \o dropped.raised>>,
              raised |-> dropped.raised]
        ELSE IF created.raised # None
        THEN [store |-> created.store,
              issued |-> <<drop_view_query, create_view_query>>,
              stdout |-> <<"Error creating materialized view: " \o created.raised>>,
              raised |-> created.raised]
        ELSE [store |-> created.store,
              issued |-> <<drop_view_query, create_view_query>>,
              stdout |-> <<"Materialized view 'risk_f_mv' created successfully">>,
              raised |-> None]

-----------------------------------------------------------------------------
(* trades.py: its own Trade class (43 fields), its own type registry, and  *)
(* its entry point.                                                        *)

trades_TradeFields ==
    <<
        <<"asOfDate", "date">>, <<"jobId", "Optional[str]">>,
        <<"snapId", "Optional[str]">>, <<"id", "int">>, <<"version", "int">>,
        <<"tradeId", "Optional[str]">>, <<"status", "Optional[str]">>,
        <<"pts", "Optional[str]">>, <<"hmsBook", "Optional[str]">>,
        <<"productType", "Optional[str]">>, <<"productSubType", "Optional[str]">>,
        <<"tradeDt", "Optional[date]">>, <<"startDt", "Optional[date]">>,
        <<"maturityDt", "Optional[date]">>, <<"maturityIsOpen", "Optional[str]">>,
        <<"executionDt", "Optional[datetime]">>, <<"counterParty", "Optional[str]">>,
        <<"treatsCode", "Optional[str]">>, <<"traderName", "Optional[str]">>,
        <<"projectName", "Optional[str]">>, <<"qmlError", "Optional[str]">>,
        <<"model", "Optional[str]">>, <<"side", "Optional[str]">>,
        <<"haircut", "Optional[float]">>, <<"collatCurrency", "Optional[str]">>,
        <<"settlementCurrency", "Optional[str]">>, <<"collatId", "Optional[str]">>,
        <<"collatDesc", "Optional[str]">>, <<"collatNotional", "Optional[Decimal]">>,
        <<"collatType", "Optional[str]">>, <<"fundingLegType", "Optional[str]">>,
        <<"fundingLegNotional", "Optional[Decimal]">>,
        <<"fundingLegCurrency", "Optional[str]">>,
        <<"fundingLegMargin", "Optional[Decimal]">>,
        <<"fundingLegFixingLabel", "Optional[str]">>,
        <<"iaAmount", "Optional[Decimal]">>, <<"iaCcy", "Optional[str]">>,
        <<"pxInception", "Optional[float]">>,
        <<"pxInceptionClean", "Optional[float]">>,
        <<"pxFactorInception", "Optional[float]">>,
        <<"sideFactor", "Optional[float]">>, <<"fxPair", "Optional[str]">>,
        <<"fxPairFunding", "Optional[str]">>
    >>

\* trades.py, Trade.create_clickhouse_table(client, table_name, database,
\* drop_existing, order_by): as in fake_financing.py, over the 43 fields and the
\* registry of trades.py.
trades_create_clickhouse_table(st, table_name, database, drop_existing, order_by, outcomes) ==
    LET drop_table_query == DropTableQuery(database, table_name)
        create_table_query ==
            [verb |-> "CREATE TABLE IF NOT EXISTS",
             target |-> QualifiedName(database, table_name),
             columns |-> [k \in 1..Len(trades_TradeFields) |->
                            <<trades_TradeFields[k][1],
                              trades_get_clickhouse_type(trades_TradeFields[k][2])>>],
             engine |-> "ReplacingMergeTree",
             version_column |-> "version",
             order_by |-> order_by]
        dropped == IF drop_existing
                   THEN ClientCommand(st, drop_table_query, outcomes[1])
                   ELSE [store |-> st, raised |-> None]
        issued1 == IF drop_existing THEN <<drop_table_query>> ELSE <<>>
        created == ClientCommand(dropped.store, create_table_query,
                                 outcomes[Len(issued1) + 1])
    IN  IF dropped.raised # None
        THEN [store |-> dropped.store, issued |-> issued1, raised |-> dropped.raised]
        ELSE [store |-> created.store,
              issued |-> Append(issued1, create_table_query),
              raised |-> created.raised]

\* trades.py, Trade.generate_random_trades_df(num_records): draws.id[k] is the
\* k-th fake.unique.random_number(digits=15), draws.tradeId[k] the k-th
\* fake.random_number(digits=8), draws.book[k] the position random.choice
\* picks in books.
trades_generate_random_trades_df(num_records, draws) ==
    LET books == <<"INTSTRREPO", "EXTSTRREPO", "EQTYREPO">>
        dtype(f) ==
            LET k == CHOOSE j \in 1..Len(trades_TradeFields) : trades_TradeFields[j][1] = f
            IN  trades_get_polars_type(trades_TradeFields[k][2])
    IN  [k \in 1..num_records |->
            [id |-> Cast(PyInt(draws.id[k]), dtype("id")),
             version |-> Cast(PyInt(0), dtype("version")),
             tradeId |-> Cast(PyStr(ToString(draws.tradeId[k])), dtype("tradeId")),
             hmsBook |-> Cast(PyStr(RandomChoice(books, draws.book[k])),
                              dtype("hmsBook"))]]

\* The num_records argument of the entry point of trades.py.
TradesMainCount == 10

\* What the store answers to get_client and to the three store calls of the
\* entry point of trades.py: all succeed, or one of them raises.
TradesMainPlans ==
    {[k \in 1..4 |-> "ok"]}
        \cup {[k \in 1..4 |-> IF k = at THEN e ELSE "ok"] : at \in 1..4, e \in StoreErrors}

\* trades.py, if __name__ == "__main__": get_client, create_clickhouse_table
\* with drop_existing=True, generate_random_trades_df(10), save_to_clickhouse,
\* print(df.glimpse()); no statement is inside a try block.
TradesMain ==
    /\ status = "running"
    /\ pc = 1
    /\ \E answers \in TradesMainPlans :
          LET created == trades_create_clickhouse_table(store, "trades_f", "default",
                             TRUE, <<"asOfDate", "id">>, <<answers[2], answers[3]>>)
              df == trades_generate_random_trades_df(TradesMainCount,
                        [id |-> [k \in 1..TradesMainCount |-> seed + k],
                         tradeId |-> [k \in 1..TradesMainCount |->
                                         10000000 + ((seed + k * k) % 50)],
                         book |-> [k \in 1..TradesMainCount |-> ((seed + k) % 3) + 1]])
              saved == save_to_clickhouse("Trade", df, created.store, "trades_f",
                                          "default", answers[4])
              r == IF answers[1] # "ok"
                   THEN [store |-> store, issued |-> <<>>, raised |-> answers[1],
                         df |-> Unset]
                   ELSE IF created.raised # None
                   THEN [store |-> created.store, issued |-> created.issued,
                         raised |-> created.raised, df |-> Unset]
                   ELSE [store |-> saved.store,
                         issued |-> created.issued \o saved.issued,
                         raised |-> saved.raised, df |-> df]
          IN  /\ store' = r.store
              /\ trades_df' = r.df
              /\ last' = [op |-> "trades.__main__", cls |-> "Trade",
                          target |-> QualifiedName("default", "trades_f"),
                          drop_existing |-> TRUE,
                          before |-> store[QualifiedName("default", "trades_f")],
                          answers |-> answers, issued |-> r.issued,
                          raised |-> r.raised]
              /\ trace' = trace \o Events(r.issued)
              /\ status' = IF r.raised = None THEN "trades_done" ELSE "trades_aborted"
              /\ error' = r.raised
    /\ UNCHANGED <<pc, seed, books_df, counterparty_df, instrument_df, risk_df,
                   risk_mv, pnl_eod>>

\* create_views.py, if __name__ == "__main__": client = get_clickhouse_client();
\* create_risk_materialized_view(client).  Run once a run of fake_financing.py
\* has completed, or again after itself.
CreateViewsMain ==
    /\ status \in {"done", "views_done", "views_aborted"}
    /\ pc <= Len(Main) + MaxViewRuns
    /\ pc' = pc + 1
    /\ \E connected \in Outcomes, outcomes \in OutcomePlans :
          LET called == create_risk_materialized_view(store, outcomes)
              r == IF connected # "ok"
                   THEN [store |-> store, issued |-> <<>>, stdout |-> <<>>,
                         raised |-> connected]
                   ELSE called
          IN  /\ store' = r.store
              /\ last' = [op |-> IF connected = "ok"
                                 THEN "create_risk_materialized_view"
                                 ELSE "get_clickhouse_client",
                          cls |-> "", target |-> drop_view_query.target,
                          drop_existing |-> TRUE,
                          before |-> store[drop_view_query.target],
                          store_before |-> store,
                          answers |-> outcomes, issued |-> r.issued,
                          stdout |-> r.stdout, raised |-> r.raised]
              /\ trace' = trace \o Events(r.issued)
              /\ status' = IF r.raised = None THEN "views_done" ELSE "views_aborted"
              /\ error' = r.raised
    /\ UNCHANGED <<seed, batches>>

\* The three programs of the repository on one store: either entry point of
\* the generators, then the view creation.
OpsNext ==
    \/ Next
    \/ TradesMain
    \/ CreateViewsMain

OpsSpec == Init /\ [][OpsNext]_vars

-----------------------------------------------------------------------------
(* Claims on the statements issued, checked under OpsSpec.                 *)

StatementsAllowed == {"DROP TABLE IF EXISTS", "CREATE TABLE IF NOT EXISTS",
                      "CREATE MATERIALIZED VIEW", "INSERT"}

\* C22: over the runs of both entry points and of the view creation, every
\* statement issued is a DROP TABLE IF EXISTS, a CREATE TABLE IF NOT EXISTS, a
\* CREATE MATERIALIZED VIEW or a batch insert; and a call either leaves the rows
\* of a table as they were, or empties the table as a whole (its DROP), or
\* appends a batch after the rows the table holds through an insert into that
\* table: no row of an existing table is updated or deleted on its own.
C22_AppendOnly ==
    [][ /\ \A k \in 1..Len(trace') :
              trace'[k].ev \in {"command", "insert"} =>
                  trace'[k].verb \in StatementsAllowed
        /\ \A q \in QualifiedNames :
              LET events == SubSeq(trace', Len(trace) + 1, Len(trace'))
                  dropped == \E k \in 1..Len(events) :
                                /\ events[k].verb = "DROP TABLE IF EXISTS"
                                /\ events[k].target = q
                  new == store'[q].rows
              IN  \E old \in {store[q].rows} \cup (IF dropped THEN {<<>>} ELSE {}) :
                      \/ new = old
                      \/ /\ Len(new) > Len(old)
                         /\ SubSeq(new, 1, Len(old)) = old
                         /\ \E k \in 1..Len(events) :
                               /\ events[k].ev = "insert"
                               /\ events[k].target = q
                               /\ events[k].n = Len(new) - Len(old)
      ]_vars

\* C22 witness: a store that has seen every kind of statement, with rows in
\* trades_f.
C22_Witness ==
    /\ \A v \in StatementsAllowed : \E k \in 1..Len(trace) : trace[k].verb = v
    /\ store[TableOf("Trade")].rows # <<>>

-----------------------------------------------------------------------------
(* Claims on the view creation, checked under OpsSpec.                     *)

ViewCallMade == last.op = "create_risk_materialized_view"

\* C24: create_risk_materialized_view issues DROP TABLE IF EXISTS risk_f_mv first
\* and the CREATE MATERIALIZED VIEW second; when the store refuses the DROP the
\* CREATE is not issued; the error of the refused command is printed and is
\* what the call raises; and when both are accepted the call raises nothing.
C24_DropThenCreate ==
    ViewCallMade =>
        /\ last.issued[1] = drop_view_query
        /\ last.issued[1].verb = "DROP TABLE IF EXISTS"
        /\ IF last.answers[1] # "ok"
           THEN /\ Len(last.issued) = 1
                /\ last.raised = last.answers[1]
                /\ last.stdout = <<"Error creating materialized view: "
                                      \o last.answers[1]>>
           ELSE /\ Len(last.issued) = 2
                /\ last.issued[2] = create_view_query
                /\ last.issued[2].verb = "CREATE MATERIALIZED VIEW"
                /\ IF last.answers[2] # "ok"
                   THEN /\ last.raised = last.answers[2]
                        /\ last.stdout = <<"Error creating materialized view: "
                                              \o last.answers[2]>>
                   ELSE last.raised = None

\* C24 witness: the store refused the DROP; the call raised that error without
\* issuing the CREATE.
C24_Witness ==
    /\ ViewCallMade
    /\ last.answers[1] = "DatabaseError"
    /\ last.raised = "DatabaseError"
    /\ Len(last.issued) = 1

\* C27 as stated: the first create_risk_materialized_view call after a
\* completed run of fake_financing.py leaves the rows of the six tables the run
\* populated as they were.
C27_Original_ViewRunKeepsRows ==
    (ViewCallMade /\ pc = Len(Main) + 2) =>
        \A cls \in {"HmsBook", "Counterparty", "Instrument", "Trade", "RiskMV", "PnLEod"} :
            /\ last.store_before[TableOf(cls)].rows # <<>>
            /\ store[TableOf(cls)].rows = last.store_before[TableOf(cls)].rows

-----------------------------------------------------------------------------
(* The defining query of risk_f_mv, as the store evaluates it on a block   *)
(* of rows inserted into risk_f.  The query sets no join_use_nulls and so  *)
(* runs under the setting of the server or session: 0 (the default) fills  *)
(* the cells of an unmatched side with the default value of the column's   *)
(* type, 1 makes them NULL.  The output columns modelled are those whose   *)
(* source column the modelled batches carry.                               *)

RECURSIVE Flatten(_)
Flatten(seqs) == IF seqs = <<>> THEN <<>> ELSE Head(seqs) \o Flatten(Tail(seqs))

\* The default value of a column type that is not Nullable.
ClickhouseDefault(type) ==
    CASE type = "String" -> ""
      [] type \in {"Int64", "Float64", "UInt8", "Decimal(38, 18)"} -> 0
      [] type = "Date" -> "1970-01-01"
      [] type = "DateTime" -> "1970-01-01 00:00:00"

\* The cell of a column of declared type `type` on a side without a match.
UnmatchedCell(type, join_use_nulls) ==
    IF type \in NullableClickhouseTypes
    THEN NullCell(type)
    ELSE IF join_use_nulls = 1
    THEN NullCell("Nullable(" \o type \o ")")
    ELSE [t |-> type, v |-> ClickhouseDefault(type)]

AliasTable(alias) == QualifiedName(DefaultDatabase, DefaultTableName(AliasEntity(alias)))

\* The columns of an alias that the modelled batches carry.
Carried(alias) ==
    CASE alias = "r" -> DOMAIN generate_random_risks_from_trades_df(RefTrades(1), 1).df[1]
      [] alias = "t" -> DOMAIN RefTrades(1)[1]
      [] alias = "cp" -> DOMAIN RefCounterparties(1)[1]
      [] alias = "i" -> DOMAIN RefInstruments(1)[1]
      [] alias = "h" -> DOMAIN RefBooks(1)[1]

\* The positions of the rows whose `column` equals a non-null key, in order;
\* <<0>> when there is none: the left row is kept, with no row on this side.
Matches(rows, column, key) ==
    LET S == IF IsNull(key) THEN {}
             ELSE {k \in 1..Len(rows) :
                      ~IsNull(rows[k][column]) /\ rows[k][column].v = key.v}
    IN  IF S = {} THEN <<0>>
        ELSE [n \in 1..Cardinality(S) |->
                CHOOSE k \in S : Cardinality({j \in S : j < k}) = n - 1]

\* SELECT ... FROM <block> AS r LEFT JOIN trades_f AS t ON r.id = t.id
\* LEFT JOIN counterparty_f AS cp ON r.counterParty = cp.name
\* LEFT JOIN instrument_f AS i ON r.collatId = i.id
\* LEFT JOIN hmsbook_f AS h ON t.hmsBook = h.name
ViewQuery(st, block, join_use_nulls) ==
    LET rows(alias) == st[AliasTable(alias)].rows
        type(alias, column) == get_clickhouse_type(Annotation(AliasEntity(alias), column))
        Items == {k \in 1..Len(ViewSelect) : ViewSelect[k][2] \in Carried(ViewSelect[k][1])}
        cell(alias, column, at) ==
            IF at = 0 THEN UnmatchedCell(type(alias, column), join_use_nulls)
            ELSE rows(alias)[at][column]
        out(r, at) ==
            [name \in {ViewSelect[k][3] : k \in Items} |->
                LET item == ViewSelect[CHOOSE k \in Items : ViewSelect[k][3] = name]
                IN  IF item[1] = "r" THEN r[item[2]]
                    ELSE cell(item[1], item[2], at[item[1]])]
        joined(r) ==
            LET ts == Matches(rows("t"), "id", r.id)
                cps == Matches(rows("cp"), "name", r.counterParty)
                is == Matches(rows("i"), "id", r.collatId)
                hs(t) == Matches(rows("h"), "name", cell("t", "hmsBook", t))
                ths == Flatten([x \in 1..Len(ts) |->
                                  [y \in 1..Len(hs(ts[x])) |-> <<ts[x], hs(ts[x])[y]>>]])
                n == Len(ths) * Len(cps) * Len(is)
            IN  [k \in 1..n |->
                    LET th == ths[((k - 1) \div (Len(cps) * Len(is))) + 1]
                        cp == cps[(((k - 1) \div Len(is)) % Len(cps)) + 1]
                        i == is[((k - 1) % Len(is)) + 1]
                    IN  out(r, [t |-> th[1], h |-> th[2], cp |-> cp, i |-> i])]
    IN  Flatten([k \in 1..Len(block) |-> joined(block[k])])

\* A table of cls as create_clickhouse_table leaves it, then holding `df`.
Populated(cls, df) ==
    [exists |-> TRUE, columns |-> FieldDefinitions(cls), engine |-> "ReplacingMergeTree",
     version_column |-> EngineVersionColumn(cls), order_by |-> DefaultOrderBy(cls),
     rows |-> to_arrow(df)]

\* Numbers of rows of the joined tables: the first row of the batch, so that the
\* second trade, counterparty, instrument and book are missing, or both rows.
JoinCounts == {1, 2}

\* The store of the join specification: every table created, the reference
\* tables and trades_f holding the first rows of their batches, risk_f empty,
\* and risk_f_mv created by create_risk_materialized_view.
JoinStore(nt, nc, ni, nb) ==
    LET tables ==
            [q \in QualifiedNames |->
                CASE q = TableOf("Trade") -> Populated("Trade", SubSeq(RefTrades(2), 1, nt))
                  [] q = TableOf("Counterparty") ->
                        Populated("Counterparty", SubSeq(RefCounterparties(2), 1, nc))
                  [] q = TableOf("Instrument") ->
                        Populated("Instrument", SubSeq(RefInstruments(2), 1, ni))
                  [] q = TableOf("HmsBook") -> Populated("HmsBook", SubSeq(RefBooks(2), 1, nb))
                  [] q = TableOf("Risk") -> Populated("Risk", <<>>)
                  [] q = TableOf("PnLEod") -> Populated("PnLEod", <<>>)
                  [] q = TableOf("RiskMV") -> Populated("RiskMV", <<>>)]
    IN  create_risk_materialized_view(tables, <<"ok", "ok">>).store

JoinInit ==
    /\ \E nt, nc, ni, nb \in JoinCounts : store = JoinStore(nt, nc, ni, nb)
    /\ last = NoCall
    /\ pc = 0
    /\ status = "idle"
    /\ error = None
    /\ trace = <<>>
    /\ seed = 0
    /\ books_df = RefBooks(2)
    /\ counterparty_df = RefCounterparties(2)
    /\ instrument_df = RefInstruments(2)
    /\ trades_df = RefTrades(2)
    /\ risk_df = Unset
    /\ risk_mv = Unset
    /\ pnl_eod = Unset

\* risk_df = Risk.generate_random_risks_from_trades_df(trades_df, n)
JoinGenerateRisks ==
    /\ status = "idle"
    /\ \E num_risks_per_trade \in 1..MaxRisksPerTrade :
          LET r == generate_random_risks_from_trades_df(trades_df, num_risks_per_trade)
          IN  /\ risk_df' = r.df
              /\ last' = BatchCall("Risk.generate_random_risks_from_trades_df", "Risk",
                                   num_risks_per_trade, r.raised)
    /\ status' = "generated"
    /\ UNCHANGED <<store, pc, error, trace, seed, books_df, counterparty_df,
                   instrument_df, trades_df, risk_mv, pnl_eod>>

\* Risk.save_to_clickhouse(risk_df, client): the accepted insert into risk_f
\* makes the store run the view's query on the inserted block and append its
\* result to risk_f_mv.
JoinSaveRisks ==
    /\ status = "generated"
    /\ \E outcome \in Outcomes, join_use_nulls \in {0, 1} :
          LET r == save_to_clickhouse("Risk", risk_df, store, DefaultTableName("Risk"),
                                      DefaultDatabase, outcome)
              block == to_arrow(risk_df)
              out == IF r.raised = None
                     THEN ViewQuery(r.store, block, join_use_nulls) ELSE <<>>
          IN  /\ store' = [r.store EXCEPT ![drop_view_query.target].rows = @ \o out]
              /\ last' = [op |-> "save_to_clickhouse", cls |-> "Risk",
                          target |-> TableOf("Risk"), drop_existing |-> FALSE,
                          before |-> store[TableOf("Risk")], answers |-> <<outcome>>,
                          issued |-> r.issued, raised |-> r.raised,
                          join_use_nulls |-> join_use_nulls, block |-> block,
                          out |-> out]
    /\ status' = "saved"
    /\ UNCHANGED <<pc, error, trace, seed, batches>>

JoinNext == JoinGenerateRisks \/ JoinSaveRisks

JoinSpec == JoinInit /\ [][JoinNext]_vars

\* The view has run on an inserted block.
ViewFired == last.op = "save_to_clickhouse" /\ last.cls = "Risk" /\ last.raised = None

\* The output names of the modelled columns of an alias.
OutputNames(alias) ==
    {ViewSelect[k][3] : k \in {j \in 1..Len(ViewSelect) :
                                  /\ ViewSelect[j][1] = alias
                                  /\ ViewSelect[j][2] \in Carried(alias)}}

\* C23 as stated: every inserted risk row yields at least one output row, and
\* the trade columns of an output row whose risk id matches no trades_f row,
\* the counterparty columns of one whose counterParty matches no counterparty_f
\* name and the instrument columns of one whose collatId matches no
\* instrument_f id are all null.
C23_Original_LeftJoinNulls ==
    ViewFired =>
        /\ \A k \in 1..Len(last.block) :
              \E o \in 1..Len(last.out) : last.out[o].id = last.block[k].id
        /\ \A o \in 1..Len(last.out) :
              LET row == last.out[o]
                  none(alias, column, key) ==
                      \A k \in 1..Len(store[AliasTable(alias)].rows) :
                          store[AliasTable(alias)].rows[k][column] # key
              IN  /\ none("t", "id", row.id) =>
                        \A name \in OutputNames("t") : IsNull(row[name])
                  /\ none("cp", "name", row.counterParty) =>
                        \A name \in OutputNames("cp") : IsNull(row[name])
                  /\ none("i", "id", row.collatId) =>
                        \A name \in OutputNames("i") : IsNull(row[name])

\* C28: every column the view's statement reads through r, t, cp, i and h (the
\* SELECT list, both sides of each ON condition, the PRIMARY KEY / ORDER BY
\* columns and the engine's discriminant, a column of r) is a declared field of
\* the entity of the alias: Risk, Trade, Counterparty, Instrument, HmsBook.
C28_ViewColumnsDeclared ==
    (ViewCallMade /\ Len(last.issued) = 2) =>
        LET query == last.issued[2] IN
        /\ \A k \in 1..Len(query.select) :
              Declared(AliasEntity(query.select[k][1]), query.select[k][2])
        /\ \A k \in 1..Len(query.joins) :
              \A side \in 1..2 :
                  Declared(AliasEntity(query.joins[k].on[side][1]),
                           query.joins[k].on[side][2])
        /\ \A k \in 1..Len(query.joins) :
              /\ query.joins[k].on[2][1] = query.joins[k].alias
              /\ query.joins[k].table = DefaultTableName(AliasEntity(query.joins[k].alias))
        /\ query.from.table = DefaultTableName(AliasEntity(query.from.alias))
        /\ \A k \in 1..Len(query.order_by) :
              Declared(AliasEntity(query.order_by[k][1]), query.order_by[k][2])
        /\ Declared(AliasEntity(query.from.alias), query.version_column)
        /\ query.version_column = "calculatedAt"
        /\ query.order_by = << <<"r", "asOfDate">>, <<"r", "id">> >>

\* C28 witness: the CREATE MATERIALIZED VIEW statement has been issued and
\* accepted, with its 87 selected columns and four joins.
C28_Witness ==
    /\ ViewCallMade
    /\ Len(last.issued) = 2
    /\ last.raised = None
    /\ Len(last.issued[2].select) = 87
    /\ Len(last.issued[2].joins) = 4

-----------------------------------------------------------------------------
(* Decimal specification: one generated decimal of one decimal field of    *)
(* Trade or Risk is put in a batch by the generator's pl.DataFrame(data,   *)
(* schema=schema, strict=False) and written by save_to_clickhouse.         *)

\* The fields whose values the generators make with Decimal(str(round(...))).
DecimalFields(cls) ==
    {model_fields(cls)[k][1] : k \in {j \in 1..Len(model_fields(cls)) :
        /\ model_fields(cls)[j][2] \in {"Decimal", "Optional[Decimal]"}
        /\ model_fields(cls)[j][1] # "iaAmount"}}

\* Values of round(random.uniform(a, b), places), as coefficient and places.
DecimalCoefficients == {0 - 99999, 0, 5, 120, 123456}

DecimalPlaces == {2, 4, 6}

DecimalInit ==
    /\ store = [q \in QualifiedNames |->
                  Populated(CHOOSE c \in Entities : TableOf(c) = q, <<>>)]
    /\ last = NoCall
    /\ pc = 0
    /\ status = "idle"
    /\ error = None
    /\ trace = <<>>
    /\ seed = 0
    /\ books_df = Unset
    /\ counterparty_df = Unset
    /\ instrument_df = Unset
    /\ trades_df = Unset
    /\ risk_df = Unset
    /\ risk_mv = Unset
    /\ pnl_eod = Unset

\* The column of one decimal field, as the generator of cls builds it from
\* one generated value.
DecimalGenerate ==
    /\ status = "idle"
    /\ \E cls \in {"Trade", "Risk"}, coeff \in DecimalCoefficients, exp \in DecimalPlaces :
       \E f \in DecimalFields(cls) :
          LET df == DataFrame(cls, <<[x \in {f} |-> PyDecimal(coeff, exp)]>>) IN
          /\ trades_df' = IF cls = "Trade" THEN df ELSE trades_df
          /\ risk_df' = IF cls = "Risk" THEN df ELSE risk_df
          /\ last' = [op |-> "generate", cls |-> cls, field |-> f,
                      generated |-> PyDecimal(coeff, exp).v, raised |-> None]
    /\ status' = "generated"
    /\ UNCHANGED <<store, pc, error, trace, seed, books_df, counterparty_df,
                   instrument_df, risk_mv, pnl_eod>>

\* cls.save_to_clickhouse(df, client)
DecimalSave ==
    /\ status = "generated"
    /\ \E outcome \in Outcomes :
          LET r == save_to_clickhouse(last.cls, LocalBatch(last.cls), store,
                                      DefaultTableName(last.cls), DefaultDatabase, outcome)
          IN  /\ store' = r.store
              /\ last' = [op |-> "save_to_clickhouse", cls |-> last.cls,
                          field |-> last.field, generated |-> last.generated,
                          target |-> TableOf(last.cls), issued |-> r.issued,
                          raised |-> r.raised]
    /\ status' = "saved"
    /\ UNCHANGED <<pc, error, trace, seed, batches>>

DecimalNext == DecimalGenerate \/ DecimalSave

DecimalSpec == DecimalInit /\ [][DecimalNext]_vars

\* C25 as stated: the generated decimal is a Decimal(38, 18) cell of the batch
\* holding the generated value, and after an accepted save it is a
\* decimal128(38, 18) cell of the inserted batch and of the table, holding the
\* generated value.
C25_Original_DecimalCarried ==
    /\ status \in {"generated", "saved"} =>
          LET cell == LocalBatch(last.cls)[1][last.field] IN
          /\ cell.t = "Decimal(38, 18)"
          /\ cell.v = last.generated
    /\ (status = "saved" /\ last.raised = None) =>
          LET sent == last.issued[1].rows[1][last.field]
              kept == store[last.target].rows[1][last.field]
          IN  /\ sent.t = "decimal128(38, 18)"
              /\ sent.v = last.generated
              /\ kept = sent

-----------------------------------------------------------------------------
(* Claims on the ordering keys of the Risk batch, checked under GenSpec.   *)

\* The ordering key of a row of a table of cls: its ORDER BY columns.
OrderingKey(cls, row) == [k \in 1..Len(DefaultOrderBy(cls)) |-> row[DefaultOrderBy(cls)[k]]]

\* The number of rows a ReplacingMergeTree table of cls keeps of `rows` once
\* its parts are merged: one per ordering key.
MergedCount(cls, rows) == Cardinality({OrderingKey(cls, rows[k]) : k \in 1..Len(rows)})

\* C26: from P trades of pairwise distinct ids and N = num_risks_per_trade >= 1
\* the Risk batch holds exactly P distinct (asOfDate, id) ordering keys, each on
\* N rows, so a merged risk_f keeps P of the N x P rows written.
C26_RiskOrderingKeys ==
    (RiskCallReturned /\ DistinctTradeIds) =>
        LET keys == {OrderingKey("Risk", risk_df[k]) : k \in Rows(risk_df)} IN
        /\ Cardinality(keys) = Len(trades_df)
        /\ \A key \in keys :
              Cardinality({k \in Rows(risk_df) : OrderingKey("Risk", risk_df[k]) = key})
                  = last.num
        /\ MergedCount("Risk", to_arrow(risk_df)) = Len(trades_df)
        /\ MergedCount("Risk", to_arrow(risk_df)) <= Len(risk_df)

\* C26 witness: two risks per trade from two trades: four rows, two keys.
C26_Witness ==
    /\ RiskCallReturned
    /\ DistinctTradeIds
    /\ last.num = 2
    /\ Len(trades_df) = 2
    /\ Len(risk_df) = 4
    /\ MergedCount("Risk", to_arrow(risk_df)) = 2

-----------------------------------------------------------------------------
(* Claims on generator calls with nothing to sample from, under GenSpec.   *)

\* C29: Trade.generate_random_trades_df with num_records >= 1 and a reference
\* batch of zero rows raises and returns no batch; with num_records = 0 it
\* returns an empty batch and raises nothing; the Risk and RiskMV generators
\* with num_risks_per_trade = 0 raise and return no batch.
C29_NothingToSampleFrom ==
    /\ last.op = "Trade.generate_random_trades_df" =>
          /\ (last.num >= 1 /\ (books_df = <<>> \/ counterparty_df = <<>>
                                   \/ instrument_df = <<>>)) =>
                /\ last.raised = "IndexError"
                /\ trades_df = Unset
          /\ last.num = 0 =>
                /\ last.raised = None
                /\ trades_df = <<>>
    /\ (last.op = "Risk.generate_random_risks_from_trades_df" /\ last.num = 0) =>
          /\ last.raised = "ValueError"
          /\ risk_df = Unset
    /\ (last.op = "RiskMV.generate_random_risks_from_trades_df" /\ last.num = 0) =>
          /\ last.raised = "ValueError"
          /\ risk_mv = Unset

\* C29 witness: the RiskMV generator called with num_risks_per_trade = 0 on a
\* batch of two trades raised.
C29_Witness ==
    /\ last.op = "RiskMV.generate_random_risks_from_trades_df"
    /\ last.num = 0
    /\ Len(trades_df) = 2
    /\ last.raised = "ValueError"
    /\ risk_mv = Unset

\* C30: the PnLEod batch has one row per distinct hmsBook of the trades batch:
\* as many rows as there are distinct hmsBook values, pairwise distinct book
\* values, every book the hmsBook of some trade and every hmsBook of a trade
\* the book of some row.
C30_OneRowPerBook ==
    last.op = "PnLEod.generate_random_pnl_eod_df" =>
        /\ Len(pnl_eod) = Cardinality({trades_df[j].hmsBook : j \in Rows(trades_df)})
        /\ \A i, k \in Rows(pnl_eod) : i # k => pnl_eod[i].book # pnl_eod[k].book
        /\ \A k \in Rows(pnl_eod) :
              \E j \in Rows(trades_df) : pnl_eod[k].book = trades_df[j].hmsBook
        /\ \A j \in Rows(trades_df) :
              \E k \in Rows(pnl_eod) : pnl_eod[k].book = trades_df[j].hmsBook

\* C30 witness: two trades of the same book: one row.
C30_Witness ==
    /\ last.op = "PnLEod.generate_random_pnl_eod_df"
    /\ Len(trades_df) = 2
    /\ trades_df[1].hmsBook = trades_df[2].hmsBook
    /\ Len(pnl_eod) = 1

=============================================================================
